---- MODULE Spec2Model ----
(***************************************************************************)
(* A model of copy_paste_nodes: the node-graph JSON serializer             *)
(* (json_nodes.py) and the clipboard operators (operators.py).             *)
(*                                                                         *)
(* The module holds several specifications, one per part of the program:   *)
(*   SpecCollect   _collect_trees, _topological_sort and the order in      *)
(*                 which dict_to_nodes creates the node groups             *)
(*   SpecValidate  validate_schema on documents                            *)
(*   SpecOracle    nodes_to_dict and its temporary '.defaults' group       *)
(*   SpecReuse     _has_equal_interface and the reuse of a node group      *)
(*   SpecRound     _serialize_nodes of a selection, then _create_nodes     *)
(*   SpecPaste     the paste operator: decode, validate, dict_to_nodes     *)
(*   SpecDumps     dumps_compact, and json.loads reading its text back     *)
(*   SpecProps     _iter_properties on one node, and its props applied    *)
(*   SpecIndex     _create_nodes on documents with edited socket indices   *)
(*   SpecUnknown   _create_nodes on documents with an unknown property     *)
(*   SpecCopy      the copy operator's text read by the paste operator     *)
(* Each specification drives its own variables; the variables of the other *)
(* parts stay at their idle value.                                         *)
(***************************************************************************)
EXTENDS Integers, Sequences, FiniteSets, TLC

\* Python's None, for a reference that is absent.
None == 0

----------------------------------------------------------------------------
(* The state                                                               *)

\* Part 1: the nested node groups of a selection and their order
VARIABLES
  groupNodes,     \* bpy.data.node_groups: group -> the node_tree of each of its nodes
  selNodes,       \* the selected nodes: the node_tree of each (None: not a group node)
  include_groups, \* nodes_to_dict's parameter
  reuse_existing, \* dict_to_nodes's parameter
  cpc,            \* where the copy / paste of the groups stands
  graph,          \* _collect_trees's trees dict: [keys: insertion order, deps: key -> set]
  all_nodes,      \* _collect_trees's all_nodes
  seen,           \* _topological_sort's seen
  tstack,         \* _topological_sort's stack
  order,          \* _topological_sort's order
  q,              \* _topological_sort's q
  docTrees,       \* the key order of the document's node_trees map
  made            \* dict_to_nodes's trees dict: the groups resolved so far

collectVars == <<groupNodes, selNodes, include_groups, reuse_existing, cpc, graph,
                 all_nodes, seen, tstack, order, q, docTrees, made>>

\* Part 2: a document handed to validate_schema
VARIABLES
  vbase,    \* the document before any edit
  vdoc,     \* the document handed to validate_schema
  vedits,   \* what was done to it: [op, target, fits] per edit
  vpc,      \* "edit", then "validated"
  vresult   \* what validate_schema(vdoc, SCHEMA) did

validateVars == <<vbase, vdoc, vedits, vpc, vresult>>

\* Part 3: nodes_to_dict and its temporary '.defaults' node group
VARIABLES
  oSelected,      \* len(nodes): how many nodes are handed to nodes_to_dict
  oTypes,         \* node_types, as 1..n
  oPaired,        \* the node types that have paired_output and whose Output type is present
  oTrees,         \* how many node groups are stored
  opc,            \* the statement nodes_to_dict is at
  oi,             \* the running loop's index
  defaultsGroup,  \* whether bpy.data.node_groups holds the '.defaults' group
  default_nodes,  \* the node types whose default instance exists in it
  default_socket, \* whether its interface socket "default" exists
  oexc            \* an exception is in flight inside the try block

oracleVars == <<oSelected, oTypes, oPaired, oTrees, opc, oi, defaultsGroup, default_nodes,
                default_socket, oexc>>

\* Part 4: a node group's interface, and dict_to_nodes reusing a group
VARIABLES
  rSource,    \* the interface items of the group that is copied
  rType,      \* the document's "type"
  rRecord,    \* the TreeRecord's "interface" in the document
  rReuse,     \* dict_to_nodes's reuse_existing
  rExists,    \* bpy.data.node_groups holds a group of the TreeRecord's name
  rLiveType,  \* that group's type
  rLive,      \* that group's interface.items_tree
  rpc,        \* "copy", "paste", then "done" or "raised"
  rCreated    \* whether dict_to_nodes created a new group

reuseVars == <<rSource, rType, rRecord, rReuse, rExists, rLiveType, rLive, rpc, rCreated>>

\* Part 5: the nodes of a tree, copied to a document and created from it
VARIABLES
  srcTree,   \* the edited tree: [nodes, links]
  ndoc,      \* the document (None before the copy)
  tampered,  \* whether the document was edited after the copy
  dstTree,   \* the tree the nodes are created in
  created,   \* _create_nodes's created dict: [name, nd, node] in insertion order
  npc        \* "copy", then _create_nodes's pass, then "done" or "raised"

roundVars == <<srcTree, ndoc, tampered, dstTree, created, npc>>

\* Part 6: the paste operator
VARIABLES
  clipboard,    \* context.window_manager.clipboard, as its lines
  pReuse,       \* the operator's reuse_existing
  editTree,     \* context.space_data.edit_tree
  nodeGroups,   \* bpy.data.node_groups: [name, type, attrs, items, tree] each
  before,       \* [tree, groups]: the edit tree and the node groups before the paste
  ppc,          \* the statement execute is at; "returned" or "raised" at the end
  lines,        \* execute's lines
  nodes_dict,   \* execute's nodes_dict
  pTrees,       \* dict_to_nodes's trees: [name, group] each
  pOffset,      \* dict_to_nodes's location_offset
  reports,      \* what self.report was called with
  presult       \* what execute returned

pasteVars == <<clipboard, pReuse, editTree, nodeGroups, before, ppc, lines, nodes_dict,
               pTrees, pOffset, reports, presult>>

\* Part 7: dumps_compact and the JSON parser that reads its text back
VARIABLES
  dObj,        \* the document handed to dumps_compact (strings are sequences of characters)
  max_inline,  \* dumps_compact's max_inline
  dText,       \* the text dumps_compact returned, a sequence of characters
  dParsed,     \* what json.loads made of the text
  dpc          \* "render", "parse", "done"

dumpsVars == <<dObj, max_inline, dText, dParsed, dpc>>

\* Part 8: the properties of one node and its NodeRecord's props
VARIABLES
  pNode,    \* the node: its type's properties (rna) and their values (vals)
  pProps,   \* the props mapping _serialize_nodes recorded for it
  pApplied, \* the node _create_nodes made from the record
  pUsed,    \* the identifiers by which _create_nodes addressed properties
  prpc      \* "edit", "done", "applied", "raised"

propsVars == <<pNode, pProps, pApplied, pUsed, prpc>>

\* Part 9: the copy operator's clipboard text read by the paste operator
VARIABLES
  kTree,      \* the edited tree, some of its nodes selected
  kWidth,     \* dumps_compact's max_inline
  kClipboard, \* context.window_manager.clipboard
  kDoc,       \* nodes_dict, as json.loads returned it
  kResult,    \* what validate_schema returned for it
  kpc         \* "copy", "paste", "validate", "done", "cancelled"

copyVars == <<kTree, kWidth, kClipboard, kDoc, kResult, kpc>>

vars == <<collectVars, validateVars, oracleVars, reuseVars, roundVars, pasteVars, dumpsVars, propsVars, copyVars>>

\* what the actions of one part leave alone
OutsideCollect == <<validateVars, oracleVars, reuseVars, roundVars, pasteVars, dumpsVars, propsVars, copyVars>>
OutsideValidate == <<collectVars, oracleVars, reuseVars, roundVars, pasteVars, dumpsVars, propsVars, copyVars>>
OutsideOracle == <<collectVars, validateVars, reuseVars, roundVars, pasteVars, dumpsVars, propsVars, copyVars>>
OutsideReuse == <<collectVars, validateVars, oracleVars, roundVars, pasteVars, dumpsVars, propsVars, copyVars>>
OutsideRound == <<collectVars, validateVars, oracleVars, reuseVars, pasteVars, dumpsVars, propsVars, copyVars>>
OutsidePaste == <<collectVars, validateVars, oracleVars, reuseVars, roundVars, dumpsVars, propsVars, copyVars>>
OutsideDumps == <<collectVars, validateVars, oracleVars, reuseVars, roundVars, pasteVars, propsVars, copyVars>>
OutsideProps == <<collectVars, validateVars, oracleVars, reuseVars, roundVars, pasteVars, dumpsVars, copyVars>>
OutsideCopy == <<collectVars, validateVars, oracleVars, reuseVars, roundVars, pasteVars, dumpsVars, propsVars>>

----------------------------------------------------------------------------
(* Generic helpers                                                         *)

Last(s) == s[Len(s)]
Front(s) == SubSeq(s, 1, Len(s) - 1)
Range(s) == {s[i] : i \in 1..Len(s)}
SeqsUpTo(S, n) == UNION {[1..k -> S] : k \in 0..n}
\* every order in which the elements of a Python set can be iterated
Orderings(S) == {s \in [1..Cardinality(S) -> S] : \A i, j \in DOMAIN s : i # j => s[i] # s[j]}
IndexOf(s, x) == CHOOSE i \in 1..Len(s) : s[i] = x

----------------------------------------------------------------------------
(* Part 1: the nested node groups of a selection and their order           *)

\* bounds of the host's data: node groups, and nodes per group / selection
NTrees == 3
MaxNodes == 2

Trees == 1..NTrees
TreeRefs == Trees \cup {None}

\* a node object: the tree that owns it (None: the edited tree), its place, its node_tree
Node(owner, i, nt) == [kind |-> "node", owner |-> owner, idx |-> i, node_tree |-> nt]
\* a node group object
Tree(t) == [kind |-> "tree", id |-> t]

\* tree.nodes of a node group
NodesOf(groups, t) == [i \in 1..Len(groups[t]) |-> Node(t, i, groups[t][i])]
\* the nodes handed to nodes_to_dict
Selected(sel) == [i \in 1..Len(sel) |-> Node(None, i, sel[i])]

\* `obj in trees`: trees is keyed by node group objects
InTrees(obj, keys) == obj.kind = "tree" /\ obj.id \in Range(keys)

\* nothing put on the deque instead
NoEntries(groups, nt) == <<>>
\* the group nt's nodes as deque entries (nt, n)
Entries(groups, nt) == [i \in 1..Len(groups[nt]) |-> <<nt, NodesOf(groups, nt)[i]>>]

\* the while loop of _collect_trees: stack is the deque, keys/deps the trees dict
RECURSIVE CollectLoop(_, _, _, _, _)
CollectLoop(groups, stack, keys, deps, all) ==
  IF stack = <<>> THEN [keys |-> keys, deps |-> deps, all_nodes |-> all]
  ELSE
    LET parent == stack[1][1]
        node   == stack[1][2]
        rest   == Tail(stack)
        nt     == node.node_tree
    IN IF nt = None
       THEN CollectLoop(groups, rest, keys, deps, Append(all, node))
       ELSE
         LET fresh  == ~InTrees(node, keys)      \* `if node not in trees`
             stack1 == IF fresh THEN rest \o Entries(groups, nt) ELSE rest
             keys1  == IF fresh /\ nt \notin Range(keys) THEN Append(keys, nt) ELSE keys
             deps1  == IF fresh THEN [t \in Range(keys1) |-> IF t = nt THEN {} ELSE deps[t]]
                       ELSE deps
             deps2  == IF parent # None
                       THEN [deps1 EXCEPT ![parent] = @ \cup {nt}]
                       ELSE deps1
         IN CollectLoop(groups, stack1, keys1, deps2, Append(all, node))

collect_trees(groups, sel) ==
  CollectLoop(groups, [i \in 1..Len(sel) |-> <<None, Selected(sel)[i]>>],
              <<>>, <<>>, <<>>)

\* the inner while of _topological_sort: pop the stack onto order until v is
\* a dependency of its top
RECURSIVE Unwind(_, _, _, _)
Unwind(g, stk, ord, v) ==
  IF stk # <<>> /\ v \notin g.deps[Last(stk)]
  THEN Unwind(g, Front(stk), Append(ord, Last(stk)), v)
  ELSE [stack |-> Append(stk, v), order |-> ord]

CollectIdle ==
  /\ groupNodes = <<>> /\ selNodes = <<>>
  /\ include_groups = FALSE /\ reuse_existing = FALSE
  /\ cpc = "idle"
  /\ graph = <<>> /\ all_nodes = <<>>
  /\ seen = {} /\ tstack = <<>> /\ order = <<>> /\ q = <<>>
  /\ docTrees = <<>> /\ made = {}

\* the nesting of node groups is acyclic: the host refuses a group inside itself
\* (the groups are numbered in a topological order of the nesting)
Acyclic(groups) ==
  \A t \in Trees : \A i \in 1..Len(groups[t]) :
     groups[t][i] # None => groups[t][i] > t

CollectStart ==
  /\ groupNodes \in {g \in [Trees -> SeqsUpTo(TreeRefs, MaxNodes)] : Acyclic(g)}
  /\ selNodes \in SeqsUpTo(TreeRefs, MaxNodes) \ {<<>>}
  /\ include_groups \in BOOLEAN
  /\ reuse_existing \in BOOLEAN
  /\ cpc = "collect"
  /\ graph = <<>> /\ all_nodes = <<>>
  /\ seen = {} /\ tstack = <<>> /\ order = <<>> /\ q = <<>>
  /\ docTrees = <<>> /\ made = {}

\* nodes_to_dict, lines 320-323: the groups to store
Collect ==
  /\ cpc = "collect"
  /\ IF include_groups
     THEN LET r == collect_trees(groupNodes, selNodes)
          IN /\ graph' = [keys |-> r.keys, deps |-> r.deps]
             /\ all_nodes' = r.all_nodes
             /\ q' = r.keys                      \* q = list(graph)
             /\ cpc' = "sort"
             /\ docTrees' = docTrees
     ELSE /\ graph' = [keys |-> <<>>, deps |-> <<>>]
          /\ all_nodes' = Selected(selNodes)
          /\ q' = <<>>
          /\ docTrees' = <<>>
          /\ cpc' = "create"
  /\ UNCHANGED <<groupNodes, selNodes, include_groups, reuse_existing, seen, tstack,
                 order, made>>
  /\ UNCHANGED OutsideCollect

\* one turn of `while q` in _topological_sort
TopoStep ==
  /\ cpc = "sort"
  /\ q # <<>>
  /\ LET v == Last(q)                              \* v = q.pop()
     IN IF v \notin seen
        THEN \E ext \in Orderings(graph.deps[v]) : \* q.extend(graph[v]), a set
               LET u == Unwind(graph, tstack, order, v)
               IN /\ seen' = seen \cup {v}
                  /\ q' = Front(q) \o ext
                  /\ tstack' = u.stack
                  /\ order' = u.order
        ELSE /\ q' = Front(q)
             /\ UNCHANGED <<seen, tstack, order>>
  /\ UNCHANGED <<groupNodes, selNodes, include_groups, reuse_existing, cpc, graph,
                 all_nodes, docTrees, made>>
  /\ UNCHANGED OutsideCollect

\* `return order + stack`, and nodes_to_dict filling trees_dict in that order
TopoReturn ==
  /\ cpc = "sort"
  /\ q = <<>>
  /\ docTrees' = order \o tstack
  /\ cpc' = "create"
  /\ UNCHANGED <<groupNodes, selNodes, include_groups, reuse_existing, graph,
                 all_nodes, seen, tstack, order, q, made>>
  /\ UNCHANGED OutsideCollect

\* the groups a TreeRecord's nodes name in "node_tree"
Referenced(t) == {groupNodes[t][i] : i \in 1..Len(groupNodes[t])} \ {None}

\* dict_to_nodes, one turn of `for name, td in raw_trees.items()`: the group is
\* reused, or created and filled by _create_nodes, which raises on a group of the
\* document that is not in trees yet
CreateTree ==
  /\ cpc = "create"
  /\ Cardinality(made) < Len(docTrees)
  /\ LET name == docTrees[Cardinality(made) + 1]
     IN \E equal_existing \in BOOLEAN :            \* a same-named group with an equal interface
          IF reuse_existing /\ equal_existing
          THEN /\ made' = made \cup {name}
               /\ cpc' = cpc
          ELSE IF \E r \in Referenced(name) : r \notin made /\ r \in Range(docTrees)
               THEN /\ cpc' = "raised"             \* node group used before definition
                    /\ made' = made
               ELSE /\ made' = made \cup {name}
                    /\ cpc' = cpc
  /\ UNCHANGED <<groupNodes, selNodes, include_groups, reuse_existing, graph,
                 all_nodes, seen, tstack, order, q, docTrees>>
  /\ UNCHANGED OutsideCollect

\* dict_to_nodes, line 636: the root nodes, every group of the document is in trees
CreateRoot ==
  /\ cpc = "create"
  /\ Cardinality(made) = Len(docTrees)
  /\ cpc' = "done"
  /\ UNCHANGED <<groupNodes, selNodes, include_groups, reuse_existing, graph,
                 all_nodes, seen, tstack, order, q, docTrees, made>>
  /\ UNCHANGED OutsideCollect

----------------------------------------------------------------------------
(* Part 2: JSON values and validate_schema                                 *)

\* A JSON value as json.loads returns it, tagged with its Python type.  A dict is
\* its items in insertion order, each <<key, value>>.
JInt(n)   == [k |-> "int", v |-> n]
JBool(b)  == [k |-> "bool", v |-> b]
JStr(x)   == [k |-> "str", v |-> x]
JNull     == [k |-> "NoneType", v |-> 0]
JList(xs) == [k |-> "list", v |-> xs]
JDict(xs) == [k |-> "dict", v |-> xs]

Keys(d) == {d.v[i][1] : i \in 1..Len(d.v)}
HasKey(d, key) == key \in Keys(d)                                    \* key in obj
Lookup(d, key) == d.v[CHOOSE i \in 1..Len(d.v) : d.v[i][1] = key][2] \* obj[key]

\* The schema language: a type, [item], {key: sub}, (sub, ...), MapOf(sub).
SType(t)    == [s |-> "type", t |-> t]
SList(item) == [s |-> "list", item |-> item]
SDict(fs)   == [s |-> "dict", fields |-> fs]
STuple(xs)  == [s |-> "tuple", items |-> xs]
SMapOf(sub) == [s |-> "mapof", value |-> sub]
Req(key, sub) == [key |-> key, optional |-> FALSE, schema |-> sub]
Opt(key, sub) == [key |-> key, optional |-> TRUE, schema |-> sub]

NODES_SCHEMA ==
  SList(SDict(<<
    Req("bl_idname", SType("str")),
    Req("props", SDict(<<Req("name", SType("str"))>>)),
    Opt("node_tree", SType("str")),
    Opt("parent", SType("str")),
    Opt("paired_output", SType("str")),
    Opt("inputs", SMapOf(SDict(<<Opt("hide", SType("bool")),
                                 Opt("links", SList(STuple(<<SType("str"), SType("int")>>)))>>))),
    Opt("outputs", SMapOf(SDict(<<Opt("hide", SType("bool"))>>)))
  >>))

SCHEMA ==
  SDict(<<
    Req("version", SType("int")),
    Req("type", SType("str")),
    Req("app_version", STuple(<<SType("int"), SType("int"), SType("int")>>)),
    Req("nodes", NODES_SCHEMA),
    Opt("node_trees", SMapOf(SDict(<<
        Req("nodes", NODES_SCHEMA),
        Req("interface", SDict(<<Opt("items_tree", SList(SDict(<<Opt("in_out", SType("str"))>>)))>>)),
        Opt("props", SDict(<<>>))
    >>)))
  >>)

\* isinstance(obj, t) for t in int, str, bool: bool is a subclass of int
IsInstance(obj, t) ==
  CASE t = "int"  -> obj.k \in {"int", "bool"}
    [] t = "str"  -> obj.k = "str"
    [] t = "bool" -> obj.k = "bool"

\* A path: 'root', then '.key' and '[index]' steps.
KeyStep(key) == [key |-> key, idx |-> -1]
IdxStep(i)   == [key |-> "", idx |-> i]
RootPath     == <<KeyStep("root")>>

\* What validate_schema does: returns (Passed) or raises TypeError: a value of the
\* wrong type at path, or a required key missing from the dict at path.
Passed == [err |-> "none", path |-> <<>>, key |-> ""]
WrongType(path) == [err |-> "type", path |-> path, key |-> ""]
MissingKey(path, key) == [err |-> "missing", path |-> path, key |-> key]

RECURSIVE validate_schema(_, _, _)
RECURSIVE ValidateItems(_, _, _, _)
RECURSIVE ValidateFields(_, _, _, _)
RECURSIVE ValidateTuple(_, _, _, _)
RECURSIVE ValidateValues(_, _, _, _)

\* lines 70-71: for i, item in enumerate(obj)
ValidateItems(obj, item, path, i) ==
  IF i > Len(obj.v) THEN Passed
  ELSE LET r == validate_schema(obj.v[i], item, Append(path, IdxStep(i - 1)))
       IN IF r.err # "none" THEN r ELSE ValidateItems(obj, item, path, i + 1)

\* lines 78-86: for key, subschema in schema.items()
ValidateFields(obj, fields, path, i) ==
  IF i > Len(fields) THEN Passed
  ELSE
    LET f == fields[i]
        r == IF f.optional
             THEN IF HasKey(obj, f.key)
                  THEN validate_schema(Lookup(obj, f.key), f.schema, Append(path, KeyStep(f.key)))
                  ELSE Passed
             ELSE IF ~HasKey(obj, f.key)
                  THEN MissingKey(path, f.key)
                  ELSE validate_schema(Lookup(obj, f.key), f.schema, Append(path, KeyStep(f.key)))
    IN IF r.err # "none" THEN r ELSE ValidateFields(obj, fields, path, i + 1)

\* lines 94-95: for i, (item, subschema) in enumerate(zip(obj, schema))
ValidateTuple(obj, items, path, i) ==
  IF i > Len(items) THEN Passed
  ELSE LET r == validate_schema(obj.v[i], items[i], Append(path, IdxStep(i - 1)))
       IN IF r.err # "none" THEN r ELSE ValidateTuple(obj, items, path, i + 1)

\* lines 101-102: for k, v in obj.items()
ValidateValues(obj, sub, path, i) ==
  IF i > Len(obj.v) THEN Passed
  ELSE LET r == validate_schema(obj.v[i][2], sub, Append(path, KeyStep(obj.v[i][1])))
       IN IF r.err # "none" THEN r ELSE ValidateValues(obj, sub, path, i + 1)

\* a variant of the dict branch that refuses a key the schema does not name
DictBranchClosed(obj, fields, path) ==
  IF \E key \in Keys(obj) : \A i \in 1..Len(fields) : fields[i].key # key
  THEN WrongType(path)
  ELSE ValidateFields(obj, fields, path, 1)

\* lines 78-87: only the keys the schema lists are looked at
DictBranch(obj, fields, path) == ValidateFields(obj, fields, path, 1)

validate_schema(obj, schema, path) ==
  CASE schema.s = "type" ->
         IF ~IsInstance(obj, schema.t) THEN WrongType(path) ELSE Passed
    [] schema.s = "list" ->
         IF obj.k # "list" THEN WrongType(path)
         ELSE ValidateItems(obj, schema.item, path, 1)
    [] schema.s = "dict" ->
         IF obj.k # "dict" THEN WrongType(path)
         ELSE DictBranch(obj, schema.fields, path)
    [] schema.s = "tuple" ->
         IF obj.k # "list" THEN WrongType(path)
         ELSE IF Len(obj.v) # Len(schema.items) THEN WrongType(path)
         ELSE ValidateTuple(obj, schema.items, path, 1)
    [] schema.s = "mapof" ->
         IF obj.k # "dict" THEN WrongType(path)
         ELSE ValidateValues(obj, schema.value, path, 1)

\* --- documents handed to validate_schema ---------------------------------

\* bound: how many edits a document takes before it is validated
MaxEdits == 1

Pair(key, val) == <<key, val>>

SocketDoc == JDict(<<Pair("hide", JBool(TRUE)),
                     Pair("links", JList(<<JList(<<JStr("b"), JInt(0)>>)>>))>>)
NodeDoc ==
  JDict(<<Pair("bl_idname", JStr("ShaderNodeMath")),
          Pair("props", JDict(<<Pair("name", JStr("a"))>>)),
          Pair("parent", JStr("f")),
          Pair("inputs", JDict(<<Pair("0", SocketDoc)>>)),
          Pair("outputs", JDict(<<Pair("0", JDict(<<Pair("hide", JBool(FALSE))>>))>>))>>)
PlainNodeDoc ==
  JDict(<<Pair("bl_idname", JStr("NodeFrame")),
          Pair("props", JDict(<<Pair("name", JStr("f"))>>))>>)
TreeDoc ==
  JDict(<<Pair("nodes", JList(<<>>)),
          Pair("interface", JDict(<<Pair("items_tree",
                JList(<<JDict(<<Pair("in_out", JStr("INPUT"))>>)>>))>>)),
          Pair("props", JDict(<<>>))>>)
\* line 8
JSON_SCHEMA_VERSION == 2
Header == <<Pair("version", JInt(JSON_SCHEMA_VERSION)), Pair("type", JStr("SHADER")),
            Pair("app_version", JList(<<JInt(4), JInt(2), JInt(0)>>))>>

\* documents as nodes_to_dict builds them ({} for an empty selection)
BaseDocs ==
  { JDict(Header \o <<Pair("nodes", JList(<<NodeDoc>>)),
                      Pair("node_trees", JDict(<<Pair("G", TreeDoc)>>))>>),
    JDict(Header \o <<Pair("nodes", JList(<<PlainNodeDoc, NodeDoc>>))>>),
    JDict(Header \o <<Pair("nodes", JList(<<>>))>>),
    JDict(<<>>) }

\* values an edit writes
EditValues == {JInt(3), JBool(TRUE), JStr("x"), JNull, JList(<<>>), JDict(<<>>)}
\* a key no schema names
ExtraKeys == {"x_new"}

IsContainer(val) == val.k \in {"list", "dict"}
Child(val, i) == IF val.k = "dict" THEN val.v[i][2] ELSE val.v[i]

\* a place in a document: the positions to follow from the root
RECURSIVE Places(_)
Places(val) ==
  {<<>>} \cup
  (IF IsContainer(val)
   THEN UNION {{<<i>> \o p : p \in Places(Child(val, i))} : i \in 1..Len(val.v)}
   ELSE {})

RECURSIVE Get(_, _)
Get(val, p) == IF p = <<>> THEN val ELSE Get(Child(val, p[1]), Tail(p))

RECURSIVE Put(_, _, _)
Put(val, p, new) ==
  IF p = <<>> THEN new
  ELSE LET i == p[1]
           sub == Put(Child(val, i), Tail(p), new)
       IN IF val.k = "dict"
          THEN [val EXCEPT !.v[i] = Pair(val.v[i][1], sub)]
          ELSE [val EXCEPT !.v[i] = sub]

SNone == [s |-> "none"]
FieldOf(fields, key) ==
  IF \E i \in 1..Len(fields) : fields[i].key = key
  THEN fields[CHOOSE i \in 1..Len(fields) : fields[i].key = key].schema
  ELSE SNone

\* the schema that governs the value at place p (SNone: no schema reaches it)
RECURSIVE SchemaAt(_, _, _)
SchemaAt(schema, val, p) ==
  IF p = <<>> THEN schema
  ELSE
    LET i == p[1]
        sub == CASE schema.s = "dict" /\ val.k = "dict" -> FieldOf(schema.fields, val.v[i][1])
                 [] schema.s = "mapof" /\ val.k = "dict" -> schema.value
                 [] schema.s = "list" /\ val.k = "list" -> schema.item
                 [] schema.s = "tuple" /\ val.k = "list" /\ i <= Len(schema.items) -> schema.items[i]
                 [] OTHER -> SNone
    IN IF sub.s = "none" THEN SNone ELSE SchemaAt(sub, Child(val, i), Tail(p))

RemoveAt(seq, i) == SubSeq(seq, 1, i - 1) \o SubSeq(seq, i + 1, Len(seq))

ValidateIdle ==
  /\ vbase = JNull /\ vdoc = JNull /\ vedits = <<>> /\ vpc = "idle" /\ vresult = Passed

ValidateStart ==
  /\ vbase \in BaseDocs
  /\ vdoc = vbase
  /\ vedits = <<>>
  /\ vpc = "edit"
  /\ vresult = Passed

\* the document lacks a key
RemoveKey ==
  /\ vpc = "edit" /\ Len(vedits) < MaxEdits
  /\ \E p \in Places(vdoc) :
       /\ Get(vdoc, p).k = "dict"
       /\ \E i \in 1..Len(Get(vdoc, p).v) :
            vdoc' = Put(vdoc, p, JDict(RemoveAt(Get(vdoc, p).v, i)))
  /\ vedits' = Append(vedits, [op |-> "remove", target |-> "", fits |-> TRUE])
  /\ UNCHANGED <<vbase, vpc, vresult>>
  /\ UNCHANGED OutsideValidate

\* the document holds another value at some place
ReplaceValue ==
  /\ vpc = "edit" /\ Len(vedits) < MaxEdits
  /\ \E p \in Places(vdoc) : \E new \in EditValues :
       /\ new # Get(vdoc, p)
       /\ vdoc' = Put(vdoc, p, new)
  /\ vedits' = Append(vedits, [op |-> "replace", target |-> "", fits |-> TRUE])
  /\ UNCHANGED <<vbase, vpc, vresult>>
  /\ UNCHANGED OutsideValidate

\* a mapping of the document holds one more key, which no schema names
AddKey ==
  /\ vpc = "edit" /\ Len(vedits) < MaxEdits
  /\ \E p \in Places(vdoc) : \E key \in ExtraKeys : \E new \in EditValues :
       LET d == Get(vdoc, p)
           sch == SchemaAt(SCHEMA, vdoc, p)
       IN /\ d.k = "dict"
          /\ ~HasKey(d, key)
          /\ vdoc' = Put(vdoc, p, JDict(Append(d.v, Pair(key, new))))
          /\ vedits' = Append(vedits,
               [op |-> "add", target |-> sch.s,
                fits |-> IF sch.s = "mapof"
                         THEN validate_schema(new, sch.value, RootPath) = Passed
                         ELSE TRUE])
  /\ UNCHANGED <<vbase, vpc, vresult>>
  /\ UNCHANGED OutsideValidate

\* operators.py line 72: validate_schema(nodes_dict, SCHEMA)
Validate ==
  /\ vpc = "edit"
  /\ vresult' = validate_schema(vdoc, SCHEMA, RootPath)
  /\ vpc' = "validated"
  /\ UNCHANGED <<vbase, vdoc, vedits>>
  /\ UNCHANGED OutsideValidate

----------------------------------------------------------------------------
(* Part 3: nodes_to_dict and its temporary '.defaults' node group          *)

\* bound: distinct (bl_idname, node_tree) pairs among the nodes to store
MaxTypes == 2

OracleIdle ==
  /\ oSelected = 0 /\ oTypes = {} /\ oPaired = {} /\ oTrees = 0
  /\ opc = "idle" /\ oi = 0
  /\ defaultsGroup = FALSE /\ default_nodes = {} /\ default_socket = FALSE
  /\ oexc = FALSE

OracleStart ==
  /\ oSelected \in 0..MaxTypes
  /\ \E n \in 0..MaxTypes :
       /\ (n = 0) <=> (oSelected = 0)
       /\ n <= oSelected + 1      \* a stored group adds node types
       /\ oTypes = 1..n
  /\ oPaired \in SUBSET oTypes
  /\ oTrees \in 0..NTrees
  /\ (oSelected = 0) => (oTrees = 0)
  /\ opc = "entry" /\ oi = 0
  /\ defaultsGroup = FALSE /\ default_nodes = {} /\ default_socket = FALSE
  /\ oexc = FALSE

OracleKeep == UNCHANGED <<oSelected, oTypes, oPaired, oTrees>>

\* lines 318-319: `if not len(nodes): return {}`
ReturnEmpty ==
  /\ opc = "entry" /\ oSelected = 0
  /\ opc' = "returned"
  /\ OracleKeep /\ UNCHANGED <<oi, defaultsGroup, default_nodes, default_socket, oexc>>
  /\ UNCHANGED OutsideOracle

\* line 336: bpy.data.node_groups.new('.defaults', ...)
NewDefaultsGroup ==
  /\ opc = "entry" /\ oSelected > 0
  /\ defaultsGroup' = TRUE
  /\ opc' = "new_node" /\ oi' = 1
  /\ OracleKeep /\ UNCHANGED <<default_nodes, default_socket, oexc>>
  /\ UNCHANGED OutsideOracle

\* where a statement that raised at pc leaves nodes_to_dict: the try block of
\* lines 356-380 covers only the serialization
Raised(pc) == IF pc \in {"serialize_root", "serialize_tree"} THEN "finally" ELSE "raised"

\* lines 337-347: one turn of `for idname, group_tree in node_types`; the host
\* creates the node, or raises (a type it cannot instantiate in this tree)
NewDefaultNode ==
  /\ opc = "new_node" /\ oi <= Cardinality(oTypes)
  /\ \/ /\ default_nodes' = default_nodes \cup {oi}
        /\ oi' = oi + 1
        /\ UNCHANGED <<opc, oexc>>
     \/ /\ opc' = Raised(opc)
        /\ oexc' = (Raised(opc) = "finally")
        /\ UNCHANGED <<default_nodes, oi>>
  /\ OracleKeep /\ UNCHANGED <<defaultsGroup, default_socket>>
  /\ UNCHANGED OutsideOracle

\* line 348: node_group.interface.new_socket("default")
NewDefaultSocket ==
  /\ opc = "new_node" /\ oi > Cardinality(oTypes)
  /\ \/ /\ default_socket' = TRUE
        /\ opc' = "pair" /\ oi' = 1
        /\ oexc' = oexc
     \/ /\ opc' = Raised(opc)
        /\ oexc' = (Raised(opc) = "finally")
        /\ UNCHANGED <<default_socket, oi>>
  /\ OracleKeep /\ UNCHANGED <<defaultsGroup, default_nodes>>
  /\ UNCHANGED OutsideOracle

\* lines 349-353: one turn of the pairing loop
PairDefault ==
  /\ opc = "pair" /\ oi <= Cardinality(oTypes)
  /\ \/ /\ oi' = oi + 1
        /\ UNCHANGED <<opc, oexc>>
     \/ /\ oi \in oPaired          \* node.pair_with_output(out_node) raises
        /\ opc' = Raised(opc)
        /\ oexc' = (Raised(opc) = "finally")
        /\ oi' = oi
  /\ OracleKeep /\ UNCHANGED <<defaultsGroup, default_nodes, default_socket>>
  /\ UNCHANGED OutsideOracle

\* line 355, and entering the try block
EnterTry ==
  /\ opc = "pair" /\ oi > Cardinality(oTypes)
  /\ opc' = "serialize_root"
  /\ OracleKeep /\ UNCHANGED <<oi, defaultsGroup, default_nodes, default_socket, oexc>>
  /\ UNCHANGED OutsideOracle

\* line 357: _serialize_nodes(nodes, default_nodes), which may raise
SerializeRoot ==
  /\ opc = "serialize_root"
  /\ \/ /\ opc' = "serialize_tree" /\ oi' = 1 /\ oexc' = oexc
     \/ /\ opc' = Raised(opc)
        /\ oexc' = (Raised(opc) = "finally")
        /\ oi' = oi
  /\ OracleKeep /\ UNCHANGED <<defaultsGroup, default_nodes, default_socket>>
  /\ UNCHANGED OutsideOracle

\* lines 359-374: one turn of `for tree in trees`, which may raise
SerializeTree ==
  /\ opc = "serialize_tree" /\ oi <= oTrees
  /\ \/ /\ oi' = oi + 1 /\ UNCHANGED <<opc, oexc>>
     \/ /\ opc' = Raised(opc)
        /\ oexc' = (Raised(opc) = "finally")
        /\ oi' = oi
  /\ OracleKeep /\ UNCHANGED <<defaultsGroup, default_nodes, default_socket>>
  /\ UNCHANGED OutsideOracle

\* lines 375-376, leaving the try block normally
LeaveTry ==
  /\ opc = "serialize_tree" /\ oi > oTrees
  /\ opc' = "finally"
  /\ OracleKeep /\ UNCHANGED <<oi, defaultsGroup, default_nodes, default_socket, oexc>>
  /\ UNCHANGED OutsideOracle

\* lines 378-379: node_group.nodes.remove(node), one default node
RemoveDefaultNode ==
  /\ opc = "finally" /\ default_nodes # {}
  /\ default_nodes' = default_nodes \ {CHOOSE n \in default_nodes : \A m \in default_nodes : n <= m}
  /\ OracleKeep /\ UNCHANGED <<opc, oi, defaultsGroup, default_socket, oexc>>
  /\ UNCHANGED OutsideOracle

\* line 380: bpy.data.node_groups.remove(node_group); then line 382, or the
\* exception goes on to the caller
RemoveDefaultsGroup ==
  /\ opc = "finally" /\ default_nodes = {}
  /\ defaultsGroup' = FALSE
  /\ default_socket' = FALSE
  /\ opc' = IF oexc THEN "raised" ELSE "returned"
  /\ OracleKeep /\ UNCHANGED <<oi, default_nodes, oexc>>
  /\ UNCHANGED OutsideOracle

----------------------------------------------------------------------------
(* Part 4: property values, interface records and the reuse of node groups *)

\* bound: interface items per node group
MaxItems == 2

JFloat(x) == [k |-> "float", v |-> x]

\* numpy.float32(x): the nearest single-precision value.  Floats are counted in
\* units of which every second one is a single-precision value.
F32(x) == 2 * (x \div 2)

\* Python's ==
Num(a) == IF a.k = "bool" THEN (IF a.v THEN 1 ELSE 0) ELSE a.v
RECURSIVE PyEq(_, _)
PyEq(a, b) ==
  CASE a.k \in {"int", "bool", "float"} /\ b.k \in {"int", "bool", "float"} -> Num(a) = Num(b)
    [] a.k = "str" /\ b.k = "str" -> a.v = b.v
    [] a.k = "list" /\ b.k = "list" ->
         Len(a.v) = Len(b.v) /\ \A i \in 1..Len(a.v) : PyEq(a.v[i], b.v[i])
    [] a.k = "NoneType" /\ b.k = "NoneType" -> TRUE
    [] OTHER -> FALSE

\* lines 124-133
RECURSIVE to_serializable(_)
to_serializable(val) ==
  CASE val.k = "list" -> JList([i \in 1..Len(val.v) |-> to_serializable(val.v[i])])
    [] val.k = "float" -> JFloat(F32(val.v))
    [] OTHER -> val

\* lines 142-152: the abbreviation table
short_prop_name(name) ==
  CASE name = "location_absolute" -> "_loc"
    [] name = "default_value" -> "_val"
    [] OTHER -> name
long_prop_name(name) ==
  CASE name = "_loc" -> "location_absolute"
    [] name = "_val" -> "default_value"
    [] OTHER -> name

\* getattr(idblock, identifier, None); an id block is a function from its
\* properties' identifiers to their values
GetAttr(idblock, id) == IF id \in DOMAIN idblock THEN idblock[id] ELSE JNull
\* None where an id block is expected: it has no attribute
NoBlock == <<>>

\* lines 154-177, for the properties that are no POINTER: properties with the
\* property's value added unless it is None or equals the default's
serialize_prop(properties, idblock, id, defaults) ==
  LET v == GetAttr(idblock, id)
      default == GetAttr(defaults, id)
  IN IF v = JNull THEN properties
     ELSE IF PyEq(v, default) THEN properties
     ELSE Append(properties, Pair(short_prop_name(id), to_serializable(v)))

\* lines 179-202 over the properties ids (sorted by identifier), none of them
\* hidden or a collection
RECURSIVE IterProps(_, _, _, _, _, _, _)
IterProps(idblock, ids, i, defaults, skip_props, always_include, readonly) ==
  IF i > Len(ids) THEN <<>>
  ELSE
    LET id == ids[i]
        rest == IterProps(idblock, ids, i + 1, defaults, skip_props, always_include, readonly)
        force_include == id \in always_include
    IN IF id \in skip_props THEN rest
       ELSE IF ~force_include /\ id \in readonly THEN rest
       ELSE serialize_prop(<<>>, idblock, id, IF force_include THEN NoBlock ELSE defaults) \o rest

\* An interface item (a socket of the group's interface): its properties, sorted
\* by identifier; in_out is read-only.  The properties left out keep their
\* default in every item here.
ItemProps == <<"default_value", "hide_value", "in_out", "name", "socket_type">>
ItemReadonly == {"in_out"}
Item(name, in_out, socket_type, hide_value, default_value) ==
  [name |-> JStr(name), in_out |-> JStr(in_out), socket_type |-> JStr(socket_type),
   hide_value |-> JBool(hide_value), default_value |-> default_value]

\* line 348: node_group.interface.new_socket("default")
DefaultSocket == Item("default", "INPUT", "NodeSocketFloat", FALSE, JFloat(0))

\* the interface items a node group may hold
LiveItems ==
  { Item("a", "INPUT", "NodeSocketFloat", FALSE, JFloat(0)),
    Item("a", "INPUT", "NodeSocketFloat", TRUE, JFloat(0)),
    Item("a", "OUTPUT", "NodeSocketFloat", FALSE, JFloat(0)),
    Item("a", "INPUT", "NodeSocketFloat", FALSE, JFloat(2)),
    Item("a", "INPUT", "NodeSocketFloat", FALSE, JFloat(4)),
    Item("a", "INPUT", "NodeSocketInt", FALSE, JInt(1)),
    Item("a", "INPUT", "NodeSocketInt", FALSE, JInt(3)),
    Item("a", "INPUT", "NodeSocketVector", FALSE, JList(<<JFloat(0), JFloat(2)>>)),
    Item("a", "INPUT", "NodeSocketVector", FALSE, JList(<<JFloat(0), JFloat(4)>>)) }
Interfaces == SeqsUpTo(LiveItems, MaxItems)

\* lines 362-367: _iter_properties(tree.interface, default_socket, ...), whose only
\* stored property is the collection items_tree
InterfaceRecord(items) ==
  JDict(<<Pair("items_tree",
      JList([i \in 1..Len(items) |->
         JDict(IterProps(items[i], ItemProps, 1, DefaultSocket,
                         {"interface_items", "bl_socket_idname", "active_index"},
                         {"in_out", "parent"}, ItemReadonly))]))>>)

\* numpy.float32 of each element of a list of numbers
F32List(xs) == [i \in 1..Len(xs) |-> JFloat(F32(xs[i].v))]

\* lines 534-550, one recorded property v against the live item's id_v:
\* "equal", "differ", or "raise" (list() of a value that is no sequence)
CompareLive(v, id_v) ==
  LET v1    == IF v.k = "float" THEN JFloat(F32(v.v)) ELSE v
      id_v1 == IF v.k = "float" THEN JFloat(F32(v.v)) ELSE id_v   \* line 539
  IN IF v1.k = "list"
     THEN IF id_v1.k # "list" THEN "raise"
          ELSE IF v1.v # <<>> /\ v1.v[1].k = "float"
               THEN IF PyEq(JList(F32List(v1.v)), JList(F32List(id_v1.v)))
                    THEN "equal" ELSE "differ"
               ELSE IF PyEq(v1, id_v1) THEN "equal" ELSE "differ"
     ELSE IF PyEq(v1, id_v1) THEN "equal" ELSE "differ"

\* lines 530-550: the recorded properties of one item, from the j-th on
RECURSIVE EqualItem(_, _, _)
EqualItem(item, id_item, j) ==
  IF j > Len(item.v) THEN "equal"
  ELSE LET k == long_prop_name(item.v[j][1])
       IN IF k \notin DOMAIN id_item THEN "differ"         \* not hasattr(id_item, k)
          ELSE LET c == CompareLive(item.v[j][2], id_item[k])
               IN IF c # "equal" THEN c ELSE EqualItem(item, id_item, j + 1)

\* lines 523-551: _has_equal_interface(tree_dict, node_group), from item i on
RECURSIVE EqualFrom(_, _, _)
EqualFrom(items, live, i) ==
  IF i > Len(items.v) THEN "equal"
  ELSE IF i > Len(live) THEN "differ"                      \* IndexError
  ELSE LET c == EqualItem(items.v[i], live[i], 1)
       IN IF c # "equal" THEN c ELSE EqualFrom(items, live, i + 1)

has_equal_interface(interface, live) == EqualFrom(Lookup(interface, "items_tree"), live, 1)

GraphTypes == {"SHADER", "GEOMETRY"}

ReuseIdle ==
  /\ rSource = <<>> /\ rType = "" /\ rRecord = JNull /\ rReuse = FALSE
  /\ rExists = FALSE /\ rLiveType = "" /\ rLive = <<>>
  /\ rpc = "idle" /\ rCreated = FALSE

ReuseStart ==
  /\ rSource \in Interfaces
  /\ rType = "GEOMETRY"
  /\ rRecord = JNull
  /\ rReuse \in BOOLEAN
  /\ rExists \in BOOLEAN
  /\ IF rExists
     THEN rLiveType \in GraphTypes /\ rLive \in Interfaces
     ELSE rLiveType = "" /\ rLive = <<>>
  /\ rpc = "copy"
  /\ rCreated = FALSE

\* nodes_to_dict, lines 360-367: the group's TreeRecord
SerializeInterface ==
  /\ rpc = "copy"
  /\ rRecord' = InterfaceRecord(rSource)
  /\ rpc' = "paste"
  /\ UNCHANGED <<rSource, rType, rReuse, rExists, rLiveType, rLive, rCreated>>
  /\ UNCHANGED OutsideReuse

\* dict_to_nodes, lines 556-565 and 615: reuse the group found, or create one
ResolveGroup ==
  /\ rpc = "paste"
  /\ IF ~rReuse \/ ~rExists \/ rType # rLiveType
     THEN rCreated' = TRUE /\ rpc' = "done"
     ELSE LET c == has_equal_interface(rRecord, rLive)
          IN /\ rCreated' = (c = "differ")
             /\ rpc' = IF c = "raise" THEN "raised" ELSE "done"
  /\ UNCHANGED <<rSource, rType, rRecord, rReuse, rExists, rLiveType, rLive>>
  /\ UNCHANGED OutsideReuse

----------------------------------------------------------------------------
(* Part 5: the nodes of a tree, _serialize_nodes and _create_nodes         *)

\* bound: nodes in the edited tree
MaxGraphNodes == 3

\* The host's node types: the sockets of a new node and whether the type has
\* the paired_output attribute.  A socket is an id block with the properties
\* default_value, hide and name.
NodeTypes == {"ShaderNodeValue", "ShaderNodeMath", "NodeFrame", "ShaderNodeGroup",
              "GeometryNodeRepeatInput", "GeometryNodeRepeatOutput"}
Socket(value, hide) ==
  [default_value |-> JFloat(value), hide |-> JBool(hide), name |-> JStr("Value")]
TypeInputs(t) ==
  CASE t = "ShaderNodeMath" -> <<Socket(2, FALSE), Socket(2, FALSE)>>
    [] OTHER -> <<>>
TypeOutputs(t) ==
  CASE t = "ShaderNodeValue" -> <<Socket(2, FALSE)>>
    [] t = "ShaderNodeMath" -> <<Socket(0, FALSE)>>
    [] OTHER -> <<>>
HasPairedOutput(t) == t = "GeometryNodeRepeatInput"

\* A node: its bl_idname, its plain properties (attrs, an id block), its
\* node_tree (the name of a node group, or None), its parent and
\* paired_output (a position in tree.nodes, None for none) and its sockets.
\* A link joins an output socket to an input socket.
NodeProps == <<"label", "location_absolute", "name", "select">>
NewNode(t, name) ==
  [bl_idname |-> t,
   attrs |-> [label |-> JStr(""), location_absolute |-> JList(<<JFloat(0), JFloat(0)>>),
              name |-> JStr(name), select |-> JBool(TRUE)],
   node_tree |-> JNull, parent |-> None, paired_output |-> None,
   inputs |-> TypeInputs(t), outputs |-> TypeOutputs(t)]
Link(from_node, from_socket, to_node, to_socket) ==
  [from_node |-> from_node, from_socket |-> from_socket,
   to_node |-> to_node, to_socket |-> to_socket]
EmptyTree == [nodes |-> <<>>, links |-> {}]
NameOf(tree, n) == tree.nodes[n].attrs.name.v
NodeNames(tree) == {NameOf(tree, n) : n \in 1..Len(tree.nodes)}

\* the host keeps node names unique within a tree by adding a suffix
Suffixes == <<".001", ".002", ".003", ".004">>
UniqueName(name, used) ==
  IF name \notin used THEN name
  ELSE name \o Suffixes[CHOOSE i \in 1..Len(Suffixes) :
                          /\ (name \o Suffixes[i]) \notin used
                          /\ \A j \in 1..(i - 1) : (name \o Suffixes[j]) \in used]

\* str(i) and int(s) for socket positions; int(s) of anything else raises
\* ValueError
Digits == <<"0", "1", "2", "3">>
Str(i) == Digits[i + 1]
Negatives == <<"-1", "-2", "-3">>
IsInt(s) == s \in Range(Digits) \cup Range(Negatives)
ParseInt(s) ==
  IF s \in Range(Digits) THEN (CHOOSE i \in 1..Len(Digits) : Digits[i] = s) - 1
  ELSE 0 - (CHOOSE i \in 1..Len(Negatives) : Negatives[i] = s)

\* bool(val)
Truthy(val) ==
  CASE val.k \in {"int", "float"} -> val.v # 0
    [] val.k = "bool" -> val.v
    [] val.k = "str" -> val.v # ""
    [] val.k = "NoneType" -> FALSE
    [] OTHER -> Len(val.v) > 0
\* lines 135-138
is_nonzero(val) ==
  IF val.k = "list" THEN \E i \in 1..Len(val.v) : Truthy(val.v[i])
  ELSE Truthy(val)

\* socket.links, a single-input socket holding one link at most
SocketLinks(tree, n, i) ==
  LET into == {l \in tree.links : l.to_node = n /\ l.to_socket = i}
  IN CHOOSE s \in Orderings(into) : TRUE

\* lines 254-259: the socket's recorded properties
RECURSIVE SocketProps(_, _, _, _, _, _)
SocketProps(props, socket, ks, socket_dir, socket_default, j) ==
  IF j > Len(ks) THEN props
  ELSE LET k == ks[j]
           kept == IF k \in DOMAIN socket /\
                      (socket_dir = "inputs" \/ is_nonzero(GetAttr(socket, k)))
                   THEN serialize_prop(props, socket, k, socket_default)
                   ELSE props
       IN SocketProps(kept, socket, ks, socket_dir, socket_default, j + 1)

\* lines 261-265: the links of an input socket whose source is in node_names
RECURSIVE LinkList(_, _, _, _)
LinkList(tree, links, node_names, j) ==
  IF j > Len(links) THEN <<>>
  ELSE LET link == links[j]
           rest == LinkList(tree, links, node_names, j + 1)
       IN IF NameOf(tree, link.from_node) \in node_names
          THEN <<JList(<<JStr(NameOf(tree, link.from_node)), JInt(link.from_socket)>>)>> \o rest
          ELSE rest

\* lines 246-275 for one socket_dir: the pairs str(i) -> record, from socket i on
RECURSIVE SerializeSockets(_, _, _, _, _, _)
SerializeSockets(tree, n, socket_dir, default_node, node_names, i) ==
  LET node == tree.nodes[n]
      sockets == node[socket_dir]
  IN IF i >= Len(sockets) THEN <<>>
     ELSE
       LET socket == sockets[i + 1]
           default_sockets == default_node[socket_dir]
           socket_default ==
             IF Len(default_sockets) > 0
             THEN default_sockets[(IF i < Len(default_sockets) - 1 THEN i
                                   ELSE Len(default_sockets) - 1) + 1]
             ELSE NoBlock
           is_reroute == node.bl_idname = "NodeReroute"
           valueProps == SocketProps(<<>>, socket,
                           IF is_reroute THEN <<>> ELSE <<"default_value", "hide", "pin_gizmo">>,
                           socket_dir, socket_default, 1)
           links == SocketLinks(tree, n, i)
           props == IF socket_dir = "inputs" /\ Len(links) > 0
                    THEN Append(valueProps,
                                Pair("links", JList(LinkList(tree, links, node_names, 1))))
                    ELSE valueProps
           record == IF socket_dir = "inputs"
                     THEN JDict(<<Pair("name", socket.name)>> \o props)
                     ELSE JDict(props)
           rest == SerializeSockets(tree, n, socket_dir, default_node, node_names, i + 1)
       IN IF Len(props) > 0 THEN <<Pair(Str(i), record)>> \o rest ELSE rest

\* the properties _serialize_nodes never records
skip_props == {"inputs", "outputs", "internal_links", "parent", "select", "location",
               "socket_idname", "active_index", "active_generation_index",
               "active_input_index", "active_main_index"}

\* lines 215-280: the NodeRecord of node n
SerializeNode(tree, n, node_names) ==
  LET node == tree.nodes[n]
      default_node == NewNode(node.bl_idname, "Node")
      is_reroute == node.bl_idname = "NodeReroute"
      props == IterProps(node.attrs, NodeProps, 1, default_node.attrs,
                         skip_props \cup (IF is_reroute THEN {"width"} ELSE {}),
                         {"name"}, {})
      inputs == SerializeSockets(tree, n, "inputs", default_node, node_names, 0)
      outputs == SerializeSockets(tree, n, "outputs", default_node, node_names, 0)
  IN JDict(<<Pair("bl_idname", JStr(node.bl_idname))>>
           \o (IF node.node_tree # JNull THEN <<Pair("node_tree", node.node_tree)>> ELSE <<>>)
           \o (IF HasPairedOutput(node.bl_idname) /\ node.paired_output # None
               THEN <<Pair("paired_output", JStr(NameOf(tree, node.paired_output)))>>
               ELSE <<>>)
           \o <<Pair("props", JDict(props))>>
           \o (IF Len(inputs) > 0 THEN <<Pair("inputs", JDict(inputs))>> ELSE <<>>)
           \o (IF Len(outputs) > 0 THEN <<Pair("outputs", JDict(outputs))>> ELSE <<>>)
           \o (IF node.parent # None
               THEN <<Pair("parent", JStr(NameOf(tree, node.parent)))>> ELSE <<>>))

\* lines 210-281: nodes is a sequence of positions in tree.nodes
serialize_nodes(tree, nodes) ==
  LET node_names == {NameOf(tree, nodes[i]) : i \in 1..Len(nodes)}
  IN [i \in 1..Len(nodes) |-> SerializeNode(tree, nodes[i], node_names)]

\* ---- _create_nodes ----

\* what a lookup that raises KeyError yields
KeyError == -1

\* An operation on a tree ends normally or raises; the tree is as the
\* operation left it either way.
Ok(tree) == [tree |-> tree, raised |-> FALSE]
Raise(tree) == [tree |-> tree, raised |-> TRUE]

\* Python's seq[i]: whether i is no IndexError below zero, and the position
Indexable(len, i) == 0 - len <= i
Position(len, i) == IF i >= 0 THEN i + 1 ELSE len + i + 1

\* created[name][1] instead: a name that is absent raises KeyError
ResolveOrRaise(made_nodes, name) ==
  IF \E i \in 1..Len(made_nodes) : made_nodes[i].name = name
  THEN made_nodes[CHOOSE i \in 1..Len(made_nodes) : made_nodes[i].name = name].node
  ELSE KeyError

\* lines 442, 444, 499: created.get(name), the node or None
Resolve(made_nodes, name) ==
  IF \E i \in 1..Len(made_nodes) : made_nodes[i].name = name
  THEN made_nodes[CHOOSE i \in 1..Len(made_nodes) : made_nodes[i].name = name].node
  ELSE None

\* created[name] = (nd, node)
CreatedPut(made_nodes, name, nd, node) ==
  LET entry == [name |-> name, nd |-> nd, node |-> node]
  IN IF \E i \in 1..Len(made_nodes) : made_nodes[i].name = name
     THEN [i \in 1..Len(made_nodes) |->
             IF made_nodes[i].name = name THEN entry ELSE made_nodes[i]]
     ELSE Append(made_nodes, entry)

\* target_tree.nodes.new(bl_idname), for a type the host knows
NodesNew(tree, bl_idname) ==
  [tree EXCEPT !.nodes = Append(@, NewNode(bl_idname, UniqueName("Node", NodeNames(tree))))]

\* node.name = name: the host keeps the names of a tree unique
SetName(tree, n, name) ==
  LET others == {NameOf(tree, m) : m \in (1..Len(tree.nodes)) \ {n}}
  IN [tree EXCEPT !.nodes[n].attrs.name = JStr(UniqueName(name, others))]

\* setattr on a property: whether the host takes the value, and what it stores
RECURSIVE Assignable(_, _)
Assignable(old, value) ==
  CASE old.k = "float" -> value.k \in {"float", "int", "bool"}
    [] old.k = "list" -> /\ value.k = "list"
                         /\ Len(value.v) = Len(old.v)
                         /\ \A i \in 1..Len(old.v) : Assignable(old.v[i], value.v[i])
    [] OTHER -> value.k = old.k
RECURSIVE Stored(_, _)
Stored(old, value) ==
  CASE old.k = "float" -> JFloat(F32(Num(value)))
    [] old.k = "list" -> JList([i \in 1..Len(old.v) |-> Stored(old.v[i], value.v[i])])
    [] OTHER -> value

\* lines 403-418, no property here being a POINTER
set_prop_on_idblock(idblock, identifier, value) ==
  IF identifier \notin DOMAIN idblock THEN [block |-> idblock, raised |-> FALSE]
  ELSE IF ~Assignable(idblock[identifier], value) THEN [block |-> idblock, raised |-> TRUE]
  ELSE [block |-> [idblock EXCEPT ![identifier] = Stored(@, value)], raised |-> FALSE]

\* lines 424-432: the node group a NodeRecord's node_tree stands for: the one
\* of that name made by this paste (trees), else the one bpy.data.node_groups
\* holds under that name, else None; "raise" for a group the document defines
\* later
GroupFor(nd, trees, raw_trees, node_groups) ==
  LET group_tree_name == Lookup(nd, "node_tree").v
  IN IF \E i \in 1..Len(trees) : trees[i].name = group_tree_name
     THEN JStr(trees[CHOOSE i \in 1..Len(trees) : trees[i].name = group_tree_name].group)
     ELSE IF group_tree_name \in raw_trees THEN JStr("raise")
     ELSE IF group_tree_name \in node_groups THEN JStr(group_tree_name)
     ELSE JNull

\* lines 422-435: one new node per NodeRecord
RECURSIVE NewNodes(_, _, _, _, _, _, _)
NewNodes(tree, made_nodes, nodes, trees, raw_trees, node_groups, i) ==
  IF i > Len(nodes) THEN [tree |-> tree, created |-> made_nodes, raised |-> FALSE]
  ELSE
    LET nd == nodes[i]
        bl_idname == Lookup(nd, "bl_idname").v
        fails == [tree |-> tree, created |-> made_nodes, raised |-> TRUE]
        withNode == NodesNew(tree, bl_idname)
        n == Len(withNode.nodes)
        group_tree == IF HasKey(nd, "node_tree") /\ Lookup(nd, "node_tree") # JNull
                      THEN GroupFor(nd, trees, raw_trees, node_groups) ELSE JNull
        withGroup == [withNode EXCEPT !.nodes[n].node_tree = group_tree]
    IN IF bl_idname \notin NodeTypes THEN fails
       ELSE IF group_tree = JStr("raise") THEN [fails EXCEPT !.tree = withNode]
       ELSE IF group_tree # JNull /\ bl_idname # "ShaderNodeGroup"
            THEN [fails EXCEPT !.tree = withNode]     \* the node has no node_tree
       ELSE IF ~HasKey(Lookup(nd, "props"), "name") THEN [fails EXCEPT !.tree = withGroup]
       ELSE LET name == Lookup(Lookup(nd, "props"), "name").v
            IN NewNodes(SetName(withGroup, n, name), CreatedPut(made_nodes, name, nd, n),
                        nodes, trees, raw_trees, node_groups, i + 1)

\* line 440, 513: sorted(created.values(), key="Output" not in bl_idname)
IsOutputNode(e) == Lookup(e.nd, "bl_idname").v = "GeometryNodeRepeatOutput"
IsOtherNode(e) == ~IsOutputNode(e)
\* created.values() as they are instead
InsertionOrder(made_nodes) == made_nodes
OutputFirst(made_nodes) == SelectSeq(made_nodes, IsOutputNode) \o SelectSeq(made_nodes, IsOtherNode)

\* node.pair_with_output(out_node): the host pairs a zone input with a zone output
PairWithOutput(tree, n, out_node) ==
  IF tree.nodes[out_node].bl_idname = "GeometryNodeRepeatOutput"
  THEN [tree EXCEPT !.nodes[n].paired_output = out_node]
  ELSE tree

\* lines 448-454: the recorded properties of one node, pair j on
RECURSIVE SetProps(_, _, _, _, _)
SetProps(tree, n, location_offset, props, j) ==
  IF j > Len(props) THEN Ok(tree)
  ELSE
    LET k == long_prop_name(props[j][1])
        v == IF k = "location_absolute" /\ props[j][2].k = "list" /\ Len(props[j][2].v) = 2
             THEN JList(<<JFloat(Num(props[j][2].v[1]) + location_offset[1]),
                          JFloat(Num(props[j][2].v[2]) + location_offset[2])>>)
             ELSE props[j][2]
    IN IF k \notin DOMAIN tree.nodes[n].attrs THEN Raise(tree)   \* prop is None
       ELSE IF k = "name"
            THEN IF v.k = "str" THEN SetProps(SetName(tree, n, v.v), n, location_offset, props, j + 1)
                 ELSE Raise(tree)
       ELSE LET set == set_prop_on_idblock(tree.nodes[n].attrs, k, v)
            IN IF set.raised THEN Raise(tree)
               ELSE SetProps([tree EXCEPT !.nodes[n].attrs = set.block], n,
                             location_offset, props, j + 1)

\* lines 441-454 for one created node
ParentAndProps(tree, made_nodes, location_offset, e) ==
  LET nd == e.nd
      n == e.node
      parent == IF HasKey(nd, "parent") THEN Resolve(made_nodes, Lookup(nd, "parent").v) ELSE None
      out_node == IF HasKey(nd, "paired_output")
                  THEN Resolve(made_nodes, Lookup(nd, "paired_output").v) ELSE None
      withParent == IF HasKey(nd, "parent") THEN [tree EXCEPT !.nodes[n].parent = parent] ELSE tree
  IN IF parent = KeyError THEN Raise(tree)
     ELSE IF out_node = KeyError THEN Raise(withParent)
     ELSE IF out_node # None /\ ~HasPairedOutput(tree.nodes[n].bl_idname) THEN Raise(withParent)
     ELSE SetProps(IF out_node # None THEN PairWithOutput(withParent, n, out_node) ELSE withParent,
                   n, location_offset,
                   IF HasKey(nd, "props") THEN Lookup(nd, "props").v ELSE <<>>, 1)

\* lines 440-483: every created node, Output nodes first
RECURSIVE ParentsAndProps(_, _, _, _, _)
ParentsAndProps(tree, made_nodes, location_offset, sorted, j) ==
  IF j > Len(sorted) THEN Ok(tree)
  ELSE LET r == ParentAndProps(tree, made_nodes, location_offset, sorted[j])
       IN IF r.raised THEN r
          ELSE ParentsAndProps(r.tree, made_nodes, location_offset, sorted, j + 1)

\* target_tree.links.new(input, output): a single-input socket drops the link
\* it had
LinksNew(tree, l) ==
  [tree EXCEPT !.links =
     {x \in @ : ~(x.to_node = l.to_node /\ x.to_socket = l.to_socket)} \cup {l}]

\* lines 498-510: the recorded links of one input socket, link j on
RECURSIVE LinkSocket(_, _, _, _, _, _)
LinkSocket(tree, made_nodes, n, pos, links, j) ==
  IF j > Len(links) THEN Ok(tree)
  ELSE
    LET from_name == links[j].v[1].v
        socket_index == links[j].v[2].v
        other == Resolve(made_nodes, from_name)
        skip == LinkSocket(tree, made_nodes, n, pos, links, j + 1)
    IN IF other = KeyError THEN Raise(tree)
       ELSE IF other = None THEN skip
       ELSE LET outputs == tree.nodes[other].outputs
            IN IF socket_index >= Len(outputs) THEN skip
               ELSE IF ~Indexable(Len(outputs), socket_index) THEN Raise(tree)
               ELSE LinkSocket(LinksNew(tree, Link(other, Position(Len(outputs), socket_index) - 1,
                                                   n, pos - 1)),
                               made_nodes, n, pos, links, j + 1)

\* lines 485-493 and 497-510: the recorded input sockets of one node, pair j on
RECURSIVE LinkNode(_, _, _, _, _)
LinkNode(tree, made_nodes, n, sockets, j) ==
  IF j > Len(sockets) THEN Ok(tree)
  ELSE
    LET key == sockets[j][1]
        sd == sockets[j][2]
        len == Len(tree.nodes[n].inputs)
    IN IF ~IsInt(key) THEN Raise(tree)
       ELSE IF ParseInt(key) >= len THEN LinkNode(tree, made_nodes, n, sockets, j + 1)
       ELSE IF ~Indexable(len, ParseInt(key)) THEN Raise(tree)
       ELSE LET r == LinkSocket(tree, made_nodes, n, Position(len, ParseInt(key)),
                                IF HasKey(sd, "links") THEN Lookup(sd, "links").v ELSE <<>>, 1)
            IN IF r.raised THEN r ELSE LinkNode(r.tree, made_nodes, n, sockets, j + 1)

\* lines 496-510: every created node
RECURSIVE CreateLinks(_, _, _)
CreateLinks(tree, made_nodes, j) ==
  IF j > Len(made_nodes) THEN Ok(tree)
  ELSE LET nd == made_nodes[j].nd
           r == LinkNode(tree, made_nodes, made_nodes[j].node,
                         IF HasKey(nd, "inputs") THEN Lookup(nd, "inputs").v ELSE <<>>, 1)
       IN IF r.raised THEN r ELSE CreateLinks(r.tree, made_nodes, j + 1)

\* line 517: sorted(sd.items(), key=k != "socket_type")
IsSocketType(p) == p[1] = "socket_type"
IsNotSocketType(p) == ~IsSocketType(p)
SocketTypeFirst(items) == SelectSeq(items, IsSocketType) \o SelectSeq(items, IsNotSocketType)

\* lines 517-521: the recorded properties of one socket, pair j on
RECURSIVE SetSocketProps(_, _, _)
SetSocketProps(socket, items, j) ==
  IF j > Len(items) THEN [block |-> socket, raised |-> FALSE]
  ELSE LET k == long_prop_name(items[j][1])
       IN IF k \in {"name", "links"} THEN SetSocketProps(socket, items, j + 1)
          ELSE LET set == set_prop_on_idblock(socket, k, items[j][2])
               IN IF set.raised THEN set ELSE SetSocketProps(set.block, items, j + 1)

\* lines 485-493 and 515-521: the recorded sockets of one node and direction
RECURSIVE SetSockets(_, _, _, _, _)
SetSockets(tree, n, socket_dir, sockets, j) ==
  IF j > Len(sockets) THEN Ok(tree)
  ELSE
    LET key == sockets[j][1]
        sd == sockets[j][2]
        len == Len(tree.nodes[n][socket_dir])
    IN IF ~IsInt(key) THEN Raise(tree)
       ELSE IF ParseInt(key) >= len THEN SetSockets(tree, n, socket_dir, sockets, j + 1)
       ELSE IF ~Indexable(len, ParseInt(key)) THEN Raise(tree)
       ELSE LET pos == Position(len, ParseInt(key))
                set == SetSocketProps(tree.nodes[n][socket_dir][pos], SocketTypeFirst(sd.v), 1)
                after == [tree EXCEPT !.nodes[n][socket_dir][pos] = set.block]
            IN IF set.raised THEN Raise(after)
               ELSE SetSockets(after, n, socket_dir, sockets, j + 1)

\* lines 513-521: every created node, Output nodes first
RECURSIVE SetSocketValues(_, _, _)
SetSocketValues(tree, sorted, j) ==
  IF j > Len(sorted) THEN Ok(tree)
  ELSE
    LET nd == sorted[j].nd
        n == sorted[j].node
        ins == SetSockets(tree, n, "inputs",
                          IF HasKey(nd, "inputs") THEN Lookup(nd, "inputs").v ELSE <<>>, 1)
        outs == SetSockets(ins.tree, n, "outputs",
                           IF HasKey(nd, "outputs") THEN Lookup(nd, "outputs").v ELSE <<>>, 1)
    IN IF ins.raised THEN ins
       ELSE IF outs.raised THEN outs
       ELSE SetSocketValues(outs.tree, sorted, j + 1)

\* ---- the edited trees, and the copy and the creation as steps ----

\* the names of the edited tree's nodes, by position
GraphNames == <<"n1", "n2", "n3", "n4">>

\* the nodes a tree is built from: a new node of a type, or one whose
\* properties and socket values were changed
Changed(node, label, location, inputs, outputs) ==
  [node EXCEPT !.attrs.label = JStr(label),
               !.attrs.location_absolute = JList(<<JFloat(location[1]), JFloat(location[2])>>),
               !.inputs = inputs, !.outputs = outputs]
NodeKind(kind, name) ==
  CASE kind = 1 -> NewNode("ShaderNodeValue", name)
    [] kind = 2 -> Changed(NewNode("ShaderNodeValue", name), "", <<0, 0>>,
                           <<>>, <<Socket(0, FALSE)>>)
    [] kind = 3 -> NewNode("ShaderNodeMath", name)
    [] kind = 4 -> Changed(NewNode("ShaderNodeMath", name), "L", <<4, 6>>,
                           <<Socket(0, TRUE), Socket(4, FALSE)>>, <<Socket(0, TRUE)>>)
    [] kind = 5 -> NewNode("NodeFrame", name)
    [] kind = 6 -> NewNode("GeometryNodeRepeatInput", name)
    [] kind = 7 -> NewNode("GeometryNodeRepeatOutput", name)
NodeKinds == 1..7

\* every sequence of 1..MaxGraphNodes such nodes, named by position
Shapes ==
  UNION {{[n \in 1..k |-> NodeKind(kinds[n], GraphNames[n])] : kinds \in [1..k -> NodeKinds]} :
           k \in 1..MaxGraphNodes}

\* what node n of the shape can be wired to: a frame as its parent, a zone
\* output as its paired_output, a node with outputs as the source of an input
\* (the second input is linked only if the first is, from a later node)
Others(shape, n, types) ==
  {m \in (1..Len(shape)) \ {n} : shape[m].bl_idname \in types}
Sources(shape, n) ==
  LET from == Others(shape, n, {"ShaderNodeValue", "ShaderNodeMath"})
  IN IF Len(shape[n].inputs) = 0 THEN {<<>>}
     ELSE {<<None, None>>} \cup {<<a, None>> : a \in from}
          \cup {ab \in from \X from : ab[1] < ab[2]}
Wirings(shape, n) ==
  [parent : IF shape[n].bl_idname = "NodeFrame" THEN {None}
            ELSE {None} \cup Others(shape, n, {"NodeFrame"}),
   paired_output : IF HasPairedOutput(shape[n].bl_idname)
                   THEN {None} \cup Others(shape, n, {"GeometryNodeRepeatOutput"})
                   ELSE {None},
   sources : Sources(shape, n)]
RECURSIVE WiringsFrom(_, _)
WiringsFrom(shape, n) ==
  IF n > Len(shape) THEN {<<>>}
  ELSE {<<w>> \o rest : w \in Wirings(shape, n), rest \in WiringsFrom(shape, n + 1)}

\* the tree of a shape and a wiring, every node selected but node unselected
Wired(shape, wiring, unselected) ==
  [nodes |-> [n \in 1..Len(shape) |->
                [shape[n] EXCEPT !.parent = wiring[n].parent,
                                 !.paired_output = wiring[n].paired_output,
                                 !.attrs.select = JBool(n # unselected)]],
   links |-> UNION {{Link(wiring[n].sources[i], 0, n, i - 1) :
                       i \in {j \in DOMAIN wiring[n].sources : wiring[n].sources[j] # None}} :
                    n \in 1..Len(shape)}]

\* the nodes the copy operator hands to nodes_to_dict: operators.py line 30
IsSelected(node) == node.attrs.select.v
SelectedNodes(tree) ==
  LET positions == [n \in 1..Len(tree.nodes) |-> n]
      Chosen(n) == IsSelected(tree.nodes[n])
  IN SelectSeq(positions, Chosen)

\* lines 315-382 for nodes without node groups
nodes_to_dict(tree, nodes) ==
  IF Len(nodes) = 0 THEN JDict(<<>>)
  ELSE JDict(Header \o <<Pair("nodes", JList(serialize_nodes(tree, nodes)))>>)

RoundIdle ==
  /\ srcTree = EmptyTree
  /\ ndoc = JNull
  /\ tampered = FALSE
  /\ dstTree = EmptyTree
  /\ created = <<>>
  /\ npc = "idle"

\* the edited tree has a selected node, and one unselected node at most
RoundStart ==
  /\ \E shape \in Shapes : \E wiring \in WiringsFrom(shape, 1) :
        \E unselected \in 0..Len(shape) :
           /\ Len(shape) > 1 \/ unselected = 0
           /\ srcTree = Wired(shape, wiring, unselected)
  /\ ndoc = JNull
  /\ tampered = FALSE
  /\ dstTree = EmptyTree
  /\ created = <<>>
  /\ npc = "copy"

\* operators.py lines 28-36: the copy
Copy ==
  /\ npc = "copy"
  /\ ndoc' = nodes_to_dict(srcTree, SelectedNodes(srcTree))
  /\ npc' = "paste"
  /\ UNCHANGED <<srcTree, tampered, dstTree, created>>
  /\ UNCHANGED OutsideRound

\* the document is edited before it is pasted: one NodeRecord is taken out
DropRecord ==
  /\ npc = "paste"
  /\ ~tampered
  /\ \E i \in 1..Len(Lookup(ndoc, "nodes").v) :
        ndoc' = Put(ndoc, <<4>>, JList(RemoveAt(Lookup(ndoc, "nodes").v, i)))
  /\ tampered' = TRUE
  /\ UNCHANGED <<srcTree, dstTree, created, npc>>
  /\ UNCHANGED OutsideRound

\* lines 421-435, the document naming no node group
CreateNewNodes ==
  /\ npc = "paste"
  /\ LET r == NewNodes(dstTree, <<>>, Lookup(ndoc, "nodes").v, <<>>, {}, {}, 1)
     IN /\ dstTree' = r.tree
        /\ created' = r.created
        /\ npc' = IF r.raised THEN "raised" ELSE "parents"
  /\ UNCHANGED <<srcTree, ndoc, tampered>>
  /\ UNCHANGED OutsideRound

\* lines 440-483, the location offset being (0, 0): target_location is None
SetParentsAndProps ==
  /\ npc = "parents"
  /\ LET r == ParentsAndProps(dstTree, created, <<0, 0>>, OutputFirst(created), 1)
     IN /\ dstTree' = r.tree
        /\ npc' = IF r.raised THEN "raised" ELSE "links"
  /\ UNCHANGED <<srcTree, ndoc, tampered, created>>
  /\ UNCHANGED OutsideRound

\* lines 495-510
CreateAllLinks ==
  /\ npc = "links"
  /\ LET r == CreateLinks(dstTree, created, 1)
     IN /\ dstTree' = r.tree
        /\ npc' = IF r.raised THEN "raised" ELSE "values"
  /\ UNCHANGED <<srcTree, ndoc, tampered, created>>
  /\ UNCHANGED OutsideRound

\* lines 512-521
SetAllSocketValues ==
  /\ npc = "values"
  /\ LET r == SetSocketValues(dstTree, OutputFirst(created), 1)
     IN /\ dstTree' = r.tree
        /\ npc' = IF r.raised THEN "raised" ELSE "done"
  /\ UNCHANGED <<srcTree, ndoc, tampered, created>>
  /\ UNCHANGED OutsideRound

----------------------------------------------------------------------------
(* Part 6: the paste operator and dict_to_nodes                            *)

\* lines 420-521: the four passes of _create_nodes, a pass that raises ending it
create_nodes(tree, location_offset, nodes, trees, raw_trees, node_groups) ==
  LET Values(links, made_nodes) ==
        IF links.raised THEN links
        ELSE SetSocketValues(links.tree, OutputFirst(made_nodes), 1)
      Links(props, made_nodes) ==
        IF props.raised THEN props
        ELSE Values(CreateLinks(props.tree, made_nodes, 1), made_nodes)
      Props(new) ==
        IF new.raised THEN Raise(new.tree)
        ELSE Links(ParentsAndProps(new.tree, new.created, location_offset,
                                   OutputFirst(new.created), 1), new.created)
  IN Props(NewNodes(tree, <<>>, nodes, trees, raw_trees, node_groups, 1))

\* obj.get(key, default)
GetOr(obj, key, default) == IF HasKey(obj, key) THEN Lookup(obj, key) ELSE default
GroupNames(groups) == {groups[g].name : g \in 1..Len(groups)}
GroupNamed(groups, name) == CHOOSE g \in 1..Len(groups) : groups[g].name = name

\* lines 567-569 and 606-614: setattr of each recorded property but those of
\* skipped, pair j on; a property the id block has not raises AttributeError
RECURSIVE SetAttrs(_, _, _, _)
SetAttrs(idblock, items, skipped, j) ==
  IF j > Len(items) THEN [block |-> idblock, raised |-> FALSE]
  ELSE LET k == long_prop_name(items[j][1])
       IN IF k \in skipped THEN SetAttrs(idblock, items, skipped, j + 1)
          ELSE IF k \notin DOMAIN idblock \/ ~Assignable(idblock[k], items[j][2])
               THEN [block |-> idblock, raised |-> TRUE]
          ELSE SetAttrs([idblock EXCEPT ![k] = Stored(@, items[j][2])], items, skipped, j + 1)

\* lines 572-587: interface.new_panel / interface.new_socket for one record
NewItem(sd) ==
  LET in_out == GetOr(sd, "in_out", JStr("PANEL")).v
  IN IF in_out = "PANEL"
     THEN [name |-> GetOr(sd, "name", JStr("")), in_out |-> JStr("PANEL")]
     ELSE LET socket_type == GetOr(sd, "socket_type", JStr("NodeSocketFloat")).v
          IN Item(GetOr(sd, "name", JStr("")).v, in_out, socket_type, FALSE,
                  IF socket_type = "NodeSocketFloat" THEN JFloat(0) ELSE JInt(0))

\* lines 571-597: new_sockets, record j on; a parent index past the items
\* made so far raises IndexError
RECURSIVE NewItems(_, _, _)
NewItems(made_items, records, j) ==
  IF j > Len(records) THEN [items |-> made_items, raised |-> FALSE]
  ELSE LET sd == records[j]
           parent_index == GetOr(sd, "parent", JNull)
       IN IF parent_index # JNull /\
             (parent_index.v >= Len(made_items) + 1
                \/ ~Indexable(Len(made_items) + 1, parent_index.v))
          THEN [items |-> Append(made_items, NewItem(sd)), raised |-> TRUE]
          ELSE NewItems(Append(made_items, NewItem(sd)), records, j + 1)

\* lines 603-613: the remaining properties of each socket, keys sorted (the
\* keys of the records here are few enough to be written in sorted order)
RECURSIVE SetItems(_, _, _)
SetItems(items, records, j) ==
  IF j > Len(records) THEN [items |-> items, raised |-> FALSE]
  ELSE IF GetOr(records[j], "in_out", JStr("PANEL")).v = "PANEL"
       THEN SetItems(items, records, j + 1)
  ELSE LET set == SetAttrs(items[j], records[j].v,
                           {"name", "description", "in_out", "socket_type", "parent",
                            "dimensions"}, 1)
       IN IF set.raised THEN [items |-> items, raised |-> TRUE]
          ELSE SetItems([items EXCEPT ![j] = set.block], records, j + 1)

\* lines 565-613: a new node group for the TreeRecord td, appended to groups;
\* a statement that raises ends it
NewGroup(groups, name, td, target_type, trees, raw_trees) ==
  LET group == [name |-> UniqueName(name, GroupNames(groups)), type |-> target_type,
                attrs |-> [description |-> JStr("")], items |-> <<>>, tree |-> EmptyTree]
      records == GetOr(Lookup(td, "interface"), "items_tree", JList(<<>>)).v
      Out(g, raised) == [groups |-> Append(groups, g), group |-> g.name, raised |-> raised]
      Values(g, values) == Out([g EXCEPT !.items = values.items], values.raised)
      Nodes(g, nodes) ==
        IF nodes.raised THEN Out([g EXCEPT !.tree = nodes.tree], TRUE)
        ELSE Values([g EXCEPT !.tree = nodes.tree], SetItems(g.items, records, 1))
      Sockets(g, sockets) ==
        IF sockets.raised THEN Out([g EXCEPT !.items = sockets.items], TRUE)
        ELSE Nodes([g EXCEPT !.items = sockets.items],
                   create_nodes(EmptyTree, <<0, 0>>, Lookup(td, "nodes").v, trees, raw_trees,
                                GroupNames(groups) \cup {g.name}))
      Props(g, props) ==
        IF props.raised THEN Out(g, TRUE)
        ELSE Sockets([g EXCEPT !.attrs = props.block], NewItems(<<>>, records, 1))
  IN Props(group, SetAttrs(group.attrs, GetOr(td, "props", JDict(<<>>)).v, {}, 1))

\* lines 554-615: the node group of each TreeRecord, pair i of node_trees on
RECURSIVE MakeTrees(_, _, _, _, _, _)
MakeTrees(groups, trees, doc, reuse, target_type, i) ==
  LET raw == GetOr(doc, "node_trees", JDict(<<>>))
  IN IF i > Len(raw.v) THEN [groups |-> groups, trees |-> trees, raised |-> FALSE]
     ELSE
       LET name == raw.v[i][1]
           td == raw.v[i][2]
           \* lines 556-563: "new", or what _has_equal_interface answers
           Found(node_group) ==
             IF Lookup(doc, "type").v # node_group.type THEN "new"
             ELSE IF ~HasKey(Lookup(td, "interface"), "items_tree") THEN "raise"
             ELSE has_equal_interface(Lookup(td, "interface"), node_group.items)
           \* trees[name] = node_group
           Put1(group) ==
             IF \E t \in 1..Len(trees) : trees[t].name = name
             THEN [t \in 1..Len(trees) |->
                     IF trees[t].name = name THEN [name |-> name, group |-> group]
                     ELSE trees[t]]
             ELSE Append(trees, [name |-> name, group |-> group])
           Go(made_group) ==
             IF made_group.raised
             THEN [groups |-> made_group.groups, trees |-> trees, raised |-> TRUE]
             ELSE MakeTrees(made_group.groups, Put1(made_group.group), doc, reuse,
                            target_type, i + 1)
           Decided(how) ==
             Go(IF how \in {"new", "differ"}
                THEN NewGroup(groups, name, td, target_type, trees, Keys(raw))
                ELSE [groups |-> groups, group |-> name, raised |-> how = "raise"])
       IN Decided(IF ~reuse \/ name \notin GroupNames(groups) THEN "new"
                  ELSE Found(groups[GroupNamed(groups, name)]))

\* lines 617-635: location_offset, or "raise" (TypeError)
RECURSIVE MinMax(_, _, _)
MinMax(nodes, minmax, j) ==
  IF j > Len(nodes) THEN minmax
  ELSE LET location == GetOr(GetOr(nodes[j], "props", JDict(<<>>)), "_loc", JNull)
           Min(a, b) == IF a < b THEN a ELSE b
           Max(a, b) == IF a > b THEN a ELSE b
       IN IF ~Truthy(location) THEN MinMax(nodes, minmax, j + 1)
          ELSE IF location.k # "list" \/ Len(location.v) < 2 THEN <<"raise">>
          ELSE LET x == Num(location.v[1])
                   y == Num(location.v[2])
               IN IF minmax = <<>> THEN MinMax(nodes, <<x, y, x, y>>, j + 1)
                  ELSE MinMax(nodes, <<Min(minmax[1], x), Min(minmax[2], y),
                                       Max(minmax[3], x), Max(minmax[4], y)>>, j + 1)
LocationOffset(doc, target_location) ==
  LET minmax == MinMax(Lookup(doc, "nodes").v, <<>>, 1)
  IN IF Len(minmax) # 4 THEN <<"raise">>        \* minmax is None, or a location is no pair
     ELSE <<target_location[1] - (minmax[1] + minmax[3]) \div 2,
            target_location[2] - (minmax[2] + minmax[4]) \div 2>>

\* ---- the clipboards, edit trees and node groups a paste starts from ----

\* A clipboard is the sequence of its lines: a comment (its first character
\* is '#'), text that is no JSON, or the JSON text of a value (the lines of
\* one value are taken as one).
CommentLine == [kind |-> "comment", value |-> JNull]
OtherText == [kind |-> "text", value |-> JNull]
JsonText(val) == [kind |-> "json", value |-> val]

\* operators.py line 67: json.loads('\n'.join(lines)), JSONDecodeError unless
\* the lines are the text of one value
JSONDecodeError == [k |-> "JSONDecodeError", v |-> 0]
json_loads(text) ==
  IF Len(text) = 1 /\ text[1].kind = "json" THEN text[1].value ELSE JSONDecodeError

\* a tree of a Value node linked to a Math node, both selected
PasteTree ==
  Wired(<<NodeKind(1, "n1"), NodeKind(4, "n2")>>,
        <<[parent |-> None, paired_output |-> None, sources |-> <<>>],
          [parent |-> None, paired_output |-> None, sources |-> <<1, None>>]>>, 0)
CopiedDoc == nodes_to_dict(PasteTree, <<1, 2>>)
GroupRecord ==
  JDict(<<Pair("nodes", JList(serialize_nodes(PasteTree, <<1>>))),
          Pair("interface", JDict(<<Pair("items_tree",
                JList(<<JDict(<<Pair("in_out", JStr("INPUT")), Pair("name", JStr("a"))>>)>>))>>)),
          Pair("props", JDict(<<>>))>>)
GroupNodeRecord ==
  JDict(<<Pair("bl_idname", JStr("ShaderNodeGroup")), Pair("node_tree", JStr("G")),
          Pair("props", JDict(<<Pair("_loc", JList(<<JFloat(2), JFloat(2)>>)),
                                Pair("name", JStr("g"))>>))>>)
GroupDoc ==
  JDict(Header \o <<Pair("nodes", JList(<<GroupNodeRecord>>)),
                    Pair("node_trees", JDict(<<Pair("G", GroupRecord)>>))>>)
\* the same with the Math node, away from the default position, in the group
MovedGroupDoc ==
  JDict(Header \o <<Pair("nodes", JList(<<GroupNodeRecord>>)),
                    Pair("node_trees", JDict(<<Pair("G",
                       Put(GroupRecord, <<1>>, JList(serialize_nodes(PasteTree, <<2>>))))>>))>>)
UnknownNodeRecord ==
  JDict(<<Pair("bl_idname", JStr("x")),
          Pair("props", JDict(<<Pair("_loc", JList(<<JFloat(2), JFloat(2)>>)),
                                Pair("name", JStr("u"))>>))>>)
WithVersion(doc, version) == Put(doc, <<1>>, version)
PasteDocs ==
  { CopiedDoc, WithVersion(CopiedDoc, JInt(3)), WithVersion(CopiedDoc, JStr("x")),
    GroupDoc, WithVersion(GroupDoc, JInt(1)), MovedGroupDoc,
    nodes_to_dict(PasteTree, <<1>>),
    JDict(Header \o <<Pair("nodes", JList(<<>>))>>),
    JDict(Header \o <<Pair("nodes", JList(<<UnknownNodeRecord>>))>>),
    JDict(<<>>), JInt(3), JList(<<>>) }
Clipboards ==
  {<<>>, <<CommentLine>>, <<OtherText>>, <<CommentLine, OtherText>>}
  \cup {<<JsonText(d)>> : d \in PasteDocs}
  \cup {<<CommentLine, JsonText(d)>> : d \in PasteDocs}
  \cup {<<JsonText(d), OtherText>> : d \in {CopiedDoc}}

\* the node group G as bpy.data.node_groups may hold it
GroupG(type, hide_value) ==
  [name |-> "G", type |-> type, attrs |-> [description |-> JStr("")],
   items |-> <<Item("a", "INPUT", "NodeSocketFloat", hide_value, JFloat(0))>>,
   tree |-> EmptyTree]
EditTreeType == "SHADER"
cursor_location == <<10, 20>>

PasteIdle ==
  /\ clipboard = <<>> /\ pReuse = FALSE /\ editTree = EmptyTree /\ nodeGroups = <<>>
  /\ before = [tree |-> EmptyTree, groups |-> <<>>]
  /\ ppc = "idle" /\ lines = <<>> /\ nodes_dict = JNull /\ pTrees = <<>>
  /\ pOffset = <<0, 0>> /\ reports = <<>> /\ presult = ""

PasteStart ==
  /\ clipboard \in Clipboards
  /\ pReuse \in BOOLEAN
  /\ editTree \in {EmptyTree, PasteTree}
  /\ nodeGroups \in {<<>>, <<GroupG("SHADER", FALSE)>>, <<GroupG("SHADER", TRUE)>>,
                     <<GroupG("GEOMETRY", FALSE)>>}
  /\ before = [tree |-> editTree, groups |-> nodeGroups]
  /\ ppc = "start" /\ lines = <<>> /\ nodes_dict = JNull /\ pTrees = <<>>
  /\ pOffset = <<0, 0>> /\ reports = <<>> /\ presult = ""

PasteKeep == UNCHANGED <<clipboard, pReuse, before>>

\* self.report({'ERROR'}, message); return {'CANCELLED'}
Cancel(message) ==
  /\ reports' = Append(reports, message)
  /\ presult' = "CANCELLED"
  /\ ppc' = "returned"

\* operators.py lines 60-65
ReadClipboard ==
  /\ ppc = "start"
  /\ IF clipboard = <<>>
     THEN Cancel("The clipboard is empty") /\ UNCHANGED lines
     ELSE /\ lines' = IF clipboard[1].kind = "comment" THEN Tail(clipboard) ELSE clipboard
          /\ ppc' = "decode"
          /\ UNCHANGED <<reports, presult>>
  /\ UNCHANGED <<editTree, nodeGroups, nodes_dict, pTrees, pOffset>>
  /\ PasteKeep /\ UNCHANGED OutsidePaste

\* operators.py lines 66-70
Decode ==
  /\ ppc = "decode"
  /\ IF json_loads(lines) = JSONDecodeError
     THEN Cancel("The clipboard could not be decoded as JSON") /\ UNCHANGED nodes_dict
     ELSE /\ nodes_dict' = json_loads(lines)
          /\ ppc' = "validate"
          /\ UNCHANGED <<reports, presult>>
  /\ UNCHANGED <<editTree, nodeGroups, lines, pTrees, pOffset>>
  /\ PasteKeep /\ UNCHANGED OutsidePaste

\* operators.py lines 71-75: whether execute goes on after validate_schema
GoOnAnyway(result) == TRUE
GoOn(result) == result = Passed

ValidateDocument ==
  /\ ppc = "validate"
  /\ IF GoOn(validate_schema(nodes_dict, SCHEMA, RootPath))
     THEN ppc' = "deselect" /\ UNCHANGED <<reports, presult>>
     ELSE Cancel("Schema error in JSON")
  /\ UNCHANGED <<editTree, nodeGroups, lines, nodes_dict, pTrees, pOffset>>
  /\ PasteKeep /\ UNCHANGED OutsidePaste

\* operators.py lines 76-77
Deselect ==
  /\ ppc = "deselect"
  /\ editTree' = [editTree EXCEPT !.nodes =
                    [n \in 1..Len(@) |-> [@[n] EXCEPT !.attrs.select = JBool(FALSE)]]]
  /\ ppc' = "trees"
  /\ UNCHANGED <<nodeGroups, lines, nodes_dict, pTrees, pOffset, reports, presult>>
  /\ PasteKeep /\ UNCHANGED OutsidePaste

\* dict_to_nodes lines 554-615
MakeNodeGroups ==
  /\ ppc = "trees"
  /\ \E r \in {MakeTrees(nodeGroups, <<>>, nodes_dict, pReuse, EditTreeType, 1)} :
        /\ nodeGroups' = r.groups
        /\ pTrees' = r.trees
        /\ ppc' = IF r.raised THEN "raised" ELSE "locate"
  /\ UNCHANGED <<editTree, lines, nodes_dict, pOffset, reports, presult>>
  /\ PasteKeep /\ UNCHANGED OutsidePaste

\* dict_to_nodes lines 617-635, target_location being the cursor's
Locate ==
  /\ ppc = "locate"
  /\ LET offset == LocationOffset(nodes_dict, cursor_location)
     IN IF offset = <<"raise">>
        THEN ppc' = "raised" /\ UNCHANGED pOffset
        ELSE ppc' = "create" /\ pOffset' = offset
  /\ UNCHANGED <<editTree, nodeGroups, lines, nodes_dict, pTrees, reports, presult>>
  /\ PasteKeep /\ UNCHANGED OutsidePaste

\* dict_to_nodes line 636, then operators.py line 84
CreateRootNodes ==
  /\ ppc = "create"
  /\ \E r \in {create_nodes(editTree, pOffset, Lookup(nodes_dict, "nodes").v, pTrees,
                             Keys(GetOr(nodes_dict, "node_trees", JDict(<<>>))),
                             GroupNames(nodeGroups))} :
        /\ editTree' = r.tree
        /\ ppc' = IF r.raised THEN "raised" ELSE "returned"
        /\ presult' = IF r.raised THEN presult ELSE "FINISHED"
  /\ UNCHANGED <<nodeGroups, lines, nodes_dict, pTrees, pOffset, reports>>
  /\ PasteKeep /\ UNCHANGED OutsidePaste

----------------------------------------------------------------------------
(* Part 7: dumps_compact, and json.loads reading its text back             *)

\* bound: characters in a string or key
MaxStrLen == 2
\* dumps_compact's defaults: line 639
DefaultIndent == 2
DefaultMaxInline == 90
\* a max_inline that small documents exceed
NarrowInline == 6

Quote == "\""
Backslash == "\\"
Newline == "\n"
DecimalDigits == <<"0", "1", "2", "3", "4", "5", "6", "7", "8", "9">>

RECURSIVE Join(_, _)
Join(items, sep) ==
  IF Len(items) = 0 THEN <<>>
  ELSE IF Len(items) = 1 THEN items[1]
  ELSE items[1] \o sep \o Join(Tail(items), sep)
Spaces(n) == [i \in 1..n |-> " "]

\* json.dumps of a string's characters: a quote and a backslash are escaped
RECURSIVE Escaped(_)
Escaped(chars) ==
  IF chars = <<>> THEN <<>>
  ELSE (IF Head(chars) \in {Quote, Backslash} THEN <<Backslash, Head(chars)>>
        ELSE <<Head(chars)>>) \o Escaped(Tail(chars))
RECURSIVE IntText(_)
IntText(n) ==
  IF n < 0 THEN <<"-">> \o IntText(0 - n)
  ELSE IF n < 10 THEN <<DecimalDigits[n + 1]>>
  ELSE IntText(n \div 10) \o <<DecimalDigits[(n % 10) + 1]>>

\* line 668: json.dumps(x) of a string, an integer, a float, a boolean or
\* None; the floats of this model are whole numbers, written like 2.0
json_dumps(x) ==
  CASE x.k = "str" -> <<Quote>> \o Escaped(x.v) \o <<Quote>>
    [] x.k = "int" -> IntText(x.v)
    [] x.k = "float" -> IntText(x.v) \o <<".", "0">>
    [] x.k = "bool" -> IF x.v THEN <<"t", "r", "u", "e">> ELSE <<"f", "a", "l", "s", "e">>
    [] x.k = "NoneType" -> <<"n", "u", "l", "l">>

\* lines 647-666: one_line if it is short enough, else one item per line
Layout(open, close, items, level, indent, width) ==
  LET one_line == <<open>> \o Join(items, <<",", " ">>) \o <<close>>
      lines_ == [i \in 1..Len(items) |-> Spaces(indent * (level + 1)) \o items[i]]
  IN IF Len(one_line) <= width THEN one_line
     ELSE <<open, Newline>> \o Join(lines_, <<",", Newline>>) \o <<Newline>>
          \o Spaces(indent * level) \o <<close>>

\* lines 644-668: render(x, level); a key is written between quotes as it is
RECURSIVE render(_, _, _, _)
render(x, level, indent, width) ==
  CASE x.k = "dict" ->
         IF x.v = <<>> THEN <<"{", "}">>
         ELSE Layout("{", "}",
                     [i \in 1..Len(x.v) |->
                        <<Quote>> \o x.v[i][1] \o <<Quote, ":", " ">>
                        \o render(x.v[i][2], level + 1, indent, width)],
                     level, indent, width)
    [] x.k = "list" ->
         IF x.v = <<>> THEN <<"[", "]">>
         ELSE Layout("[", "]",
                     [i \in 1..Len(x.v) |-> render(x.v[i], level + 1, indent, width)],
                     level, indent, width)
    [] OTHER -> json_dumps(x)

\* lines 639-670
dumps_compact(obj, indent, width) == render(obj, 0, indent, width)

\* ---- operators.py line 67: json.loads, a standard JSON parser ----

\* The result of reading a value: whether it could be read, the value, and
\* the position after it
Fail == [ok |-> FALSE, val |-> JNull, next |-> 0]
Read(val, next) == [ok |-> TRUE, val |-> val, next |-> next]
At(t, i, c) == i <= Len(t) /\ t[i] = c

RECURSIVE SkipSpace(_, _)
SkipSpace(t, i) == IF i <= Len(t) /\ t[i] \in {" ", Newline} THEN SkipSpace(t, i + 1) ELSE i

\* the characters of a string, from position i (after the opening quote) on
RECURSIVE ReadChars(_, _, _)
ReadChars(t, i, acc) ==
  IF i > Len(t) \/ t[i] = Newline THEN Fail
  ELSE IF t[i] = Quote THEN Read(acc, i + 1)
  ELSE IF t[i] = Backslash
       THEN IF i + 1 <= Len(t) /\ t[i + 1] \in {Quote, Backslash}
            THEN ReadChars(t, i + 2, Append(acc, t[i + 1]))
            ELSE Fail
  ELSE ReadChars(t, i + 1, Append(acc, t[i]))

\* the digits of an integer, from position i on
DigitValue(c) == (CHOOSE d \in 1..10 : DecimalDigits[d] = c) - 1
RECURSIVE ReadDigits(_, _, _)
ReadDigits(t, i, n) ==
  IF i <= Len(t) /\ t[i] \in Range(DecimalDigits)
  THEN ReadDigits(t, i + 1, 10 * n + DigitValue(t[i]))
  ELSE Read(JInt(n), i)
\* a number: no digit follows a leading 0
ReadNumber(t, i) ==
  LET Signed(sign, j) ==
        IF ~(j <= Len(t) /\ t[j] \in Range(DecimalDigits)) THEN Fail
        ELSE IF t[j] = "0" THEN Read(JInt(0), j + 1)
        ELSE LET Neg(r) == Read(JInt(sign * r.val.v), r.next)
             IN Neg(ReadDigits(t, j, 0))
      \* a fraction makes the number a float; the floats of this model are
      \* whole numbers, so the fraction read is a run of zeros
      Zeros(whole, digits, j) ==
        IF digits.next = j \/ digits.val.v # 0 THEN Fail
        ELSE Read(JFloat(whole.val.v), digits.next)
      Fraction(whole) ==
        IF whole.ok /\ At(t, whole.next, ".")
        THEN Zeros(whole, ReadDigits(t, whole.next + 1, 0), whole.next + 1)
        ELSE whole
  IN Fraction(IF At(t, i, "-") THEN Signed(0 - 1, i + 1) ELSE Signed(1, i))

Matches(t, i, word) ==
  /\ i + Len(word) - 1 <= Len(t)
  /\ \A j \in 1..Len(word) : t[i + j - 1] = word[j]

\* obj[key] = val while an object is read: a repeated key keeps its place and
\* takes the last value
SetKey(pairs, key, val) ==
  IF \E i \in 1..Len(pairs) : pairs[i][1] = key
  THEN [i \in 1..Len(pairs) |-> IF pairs[i][1] = key THEN Pair(key, val) ELSE pairs[i]]
  ELSE Append(pairs, Pair(key, val))

RECURSIVE ReadValue(_, _)
RECURSIVE ReadItems(_, _, _)
RECURSIVE ReadMembers(_, _, _)
ReadValue(t, from) ==
  LET Value(i) ==
        IF i > Len(t) THEN Fail
        ELSE IF t[i] = Quote
             THEN LET Str1(r) == IF r.ok THEN Read(JStr(r.val), r.next) ELSE Fail
                  IN Str1(ReadChars(t, i + 1, <<>>))
        ELSE IF t[i] = "["
             THEN IF At(t, SkipSpace(t, i + 1), "]")
                  THEN Read(JList(<<>>), SkipSpace(t, i + 1) + 1)
                  ELSE ReadItems(t, i + 1, <<>>)
        ELSE IF t[i] = "{"
             THEN IF At(t, SkipSpace(t, i + 1), "}")
                  THEN Read(JDict(<<>>), SkipSpace(t, i + 1) + 1)
                  ELSE ReadMembers(t, i + 1, <<>>)
        ELSE IF Matches(t, i, <<"t", "r", "u", "e">>) THEN Read(JBool(TRUE), i + 4)
        ELSE IF Matches(t, i, <<"f", "a", "l", "s", "e">>) THEN Read(JBool(FALSE), i + 5)
        ELSE IF Matches(t, i, <<"n", "u", "l", "l">>) THEN Read(JNull, i + 4)
        ELSE ReadNumber(t, i)
  IN Value(SkipSpace(t, from))
ReadItems(t, from, acc) ==
  LET After(r, j) ==
        IF At(t, j, ",") THEN ReadItems(t, j + 1, Append(acc, r.val))
        ELSE IF At(t, j, "]") THEN Read(JList(Append(acc, r.val)), j + 1)
        ELSE Fail
      Item1(r) == IF r.ok THEN After(r, SkipSpace(t, r.next)) ELSE Fail
  IN Item1(ReadValue(t, from))
ReadMembers(t, from, acc) ==
  LET After(key, r, j) ==
        IF At(t, j, ",") THEN ReadMembers(t, j + 1, SetKey(acc, key, r.val))
        ELSE IF At(t, j, "}") THEN Read(JDict(SetKey(acc, key, r.val)), j + 1)
        ELSE Fail
      Member(key, r) == IF r.ok THEN After(key, r, SkipSpace(t, r.next)) ELSE Fail
      Colon(key, j) == IF key.ok /\ At(t, j, ":") THEN Member(key.val, ReadValue(t, j + 1)) ELSE Fail
      Key(key) == Colon(key, IF key.ok THEN SkipSpace(t, key.next) ELSE 0)
      Name(i) == IF At(t, i, Quote) THEN Key(ReadChars(t, i + 1, <<>>)) ELSE Fail
  IN Name(SkipSpace(t, from))

\* json.loads(text): the value, if the text is one value and white space
json_parse(t) ==
  LET Whole(r) == IF r.ok /\ SkipSpace(t, r.next) > Len(t) THEN r.val ELSE JSONDecodeError
  IN Whole(ReadValue(t, 1))

\* ---- the documents dumps_compact is given ----

\* Characters of the strings and keys: a letter, and the two characters that
\* JSON writes with an escape
Alphabet == {"a", Quote, Backslash}
Texts == UNION {[1..n -> Alphabet] : n \in 0..MaxStrLen}
Scalars == {JStr(<<"a">>), JStr(<<Quote>>), JStr(<<Backslash, "a">>),
            JInt(0), JInt(0 - 12), JInt(305), JBool(TRUE), JBool(FALSE), JNull}
ListsOf(values) == {JList(<<>>)} \cup {JList(<<x>>) : x \in values}
                   \cup {JList(<<x, y>>) : x \in values, y \in values}
Flat == Scalars \cup ListsOf(Scalars) \cup {JDict(<<>>)}
        \cup {JDict(<<Pair(key, x)>>) : key \in Texts, x \in Scalars}
        \cup {JDict(<<Pair(<<"a">>, x), Pair(<<"a", "a">>, y)>>) : x \in Scalars, y \in Scalars}
Documents == Flat \cup {JList(<<x, JInt(7)>>) : x \in Flat}
             \cup {JDict(<<Pair(<<"a">>, x)>>) : x \in Flat}

DumpsIdle ==
  /\ dObj = JNull /\ max_inline = 0 /\ dText = <<>> /\ dParsed = JNull /\ dpc = "idle"

DumpsStart ==
  /\ dObj \in Documents
  /\ max_inline \in {NarrowInline, DefaultMaxInline}
  /\ dText = <<>> /\ dParsed = JNull /\ dpc = "render"

\* operators.py line 35: the text put on the clipboard
Dump ==
  /\ dpc = "render"
  /\ dText' = dumps_compact(dObj, DefaultIndent, max_inline)
  /\ dpc' = "parse"
  /\ UNCHANGED <<dObj, max_inline, dParsed>>
  /\ UNCHANGED OutsideDumps

\* operators.py line 67: the text read back
Load ==
  /\ dpc = "parse"
  /\ dParsed' = json_parse(dText)
  /\ dpc' = "done"
  /\ UNCHANGED <<dObj, max_inline, dText>>
  /\ UNCHANGED OutsideDumps

----------------------------------------------------------------------------
(* Part 8: _iter_properties on a node with properties of every kind        *)

\* A property of a type (an entry of bl_rna.properties), and an id block: its
\* type's properties, sorted by identifier as line 181 sorts them, and the
\* value of each
Prop(identifier, type, is_hidden, is_readonly) ==
  [identifier |-> identifier, type |-> type, is_hidden |-> is_hidden,
   is_readonly |-> is_readonly]
Block(rna, vals) == [rna |-> rna, vals |-> vals]
\* the value of a POINTER property: a struct, kept in a bpy.data collection or not
JPointer(in_data, name, index) ==
  [k |-> "pointer", in_data |-> in_data, name |-> name, index |-> index]
\* the value of a COLLECTION property: id blocks
JCollection(blocks) == [k |-> "collection", v |-> blocks]

\* getattr(idblock, identifier, None)
GetVal(idblock, id) ==
  IF DOMAIN idblock = {} THEN JNull
  ELSE IF id \in DOMAIN idblock.vals THEN idblock.vals[id] ELSE JNull

\* lines 154-177
serialize_any_prop(properties, idblock, prop, defaults) ==
  LET v == GetVal(idblock, prop.identifier)
      default == GetVal(defaults, prop.identifier)
      key == short_prop_name(prop.identifier)
  IN IF v = JNull THEN properties
     ELSE IF v = default \/ PyEq(v, default) THEN properties
     ELSE IF prop.type = "POINTER"
          THEN IF v.in_data THEN Append(properties, Pair(key, JStr(v.name)))
               ELSE IF prop.identifier = "parent" /\ v.index >= 0
                    THEN Append(properties, Pair(key, JInt(v.index)))
               ELSE properties
     ELSE Append(properties, Pair(key, to_serializable(v)))

\* lines 179-202, from the i-th property on
RECURSIVE iter_properties(_, _, _, _, _)
iter_properties(idblock, defaults, skipped, always_include, i) ==
  IF i > Len(idblock.rna) THEN <<>>
  ELSE
    LET prop == idblock.rna[i]
        Rest(properties) ==
          properties \o iter_properties(idblock, defaults, skipped, always_include, i + 1)
        force_include == prop.identifier \in always_include
        entries == GetVal(idblock, prop.identifier).v
    IN IF prop.identifier \in skipped THEN Rest(<<>>)
       ELSE IF prop.is_hidden THEN Rest(<<>>)
       ELSE IF prop.type = "COLLECTION"
            THEN Rest(<<Pair(short_prop_name(prop.identifier),
                   JList([j \in 1..Len(entries) |->
                     JDict(iter_properties(entries[j], defaults, skipped, always_include, 1))]))>>)
       ELSE IF ~force_include /\ prop.is_readonly THEN Rest(<<>>)
       ELSE IF prop.type \in {"BOOLEAN", "INT", "FLOAT", "ENUM", "STRING", "POINTER"}
            THEN Rest(serialize_any_prop(<<>>, idblock, prop,
                                         IF force_include THEN NoBlock ELSE defaults))
       ELSE Rest(<<>>)

\* lines 228-244: the props of a NodeRecord
node_props(node, default_node, bl_idname) ==
  JDict(iter_properties(node, default_node,
          skip_props \cup (IF bl_idname = "NodeReroute" THEN {"width"} ELSE {}),
          {"name"}, 1))

\* ---- the node types whose properties are serialized ----

\* the properties every node type has, and those of two types; rna_type is
\* hidden, dimensions and type are read-only
CommonRna ==
  <<Prop("color", "FLOAT", FALSE, FALSE), Prop("dimensions", "FLOAT", FALSE, TRUE),
    Prop("hide", "BOOLEAN", FALSE, FALSE), Prop("inputs", "COLLECTION", FALSE, TRUE),
    Prop("label", "STRING", FALSE, FALSE), Prop("location_absolute", "FLOAT", FALSE, FALSE),
    Prop("name", "STRING", FALSE, FALSE)>>
CommonTail ==
  <<Prop("rna_type", "POINTER", TRUE, TRUE), Prop("select", "BOOLEAN", FALSE, FALSE),
    Prop("type", "ENUM", FALSE, TRUE)>>
NodeRna(t) ==
  CASE t = "ShaderNodeMath" ->
         CommonRna \o <<Prop("operation", "ENUM", FALSE, FALSE)>> \o CommonTail
         \o <<Prop("use_clamp", "BOOLEAN", FALSE, FALSE)>>
    [] t = "GeometryNodeRepeatOutput" ->
         <<Prop("active_index", "INT", FALSE, FALSE), Prop("active_item", "POINTER", FALSE, FALSE)>>
         \o SubSeq(CommonRna, 1, 4) \o <<Prop("inspection_index", "INT", FALSE, FALSE)>>
         \o SubSeq(CommonRna, 5, 7) \o <<Prop("repeat_items", "COLLECTION", FALSE, TRUE)>>
         \o CommonTail
    [] t = "NodeValuedItems" ->
         CommonRna \o CommonTail \o <<Prop("value_items", "COLLECTION", FALSE, TRUE)>>
    [] OTHER -> CommonRna \o CommonTail
\* the collection-valued properties that are recorded
Collections == {"repeat_items", "value_items"}
\* an entry of repeat_items
EntryRna ==
  <<Prop("color", "FLOAT", FALSE, TRUE), Prop("name", "STRING", FALSE, FALSE),
    Prop("rna_type", "POINTER", TRUE, TRUE), Prop("socket_type", "ENUM", FALSE, FALSE)>>
Entry(name, socket_type) ==
  Block(EntryRna,
        [color |-> JList(<<JFloat(2), JFloat(2)>>), name |-> JStr(name),
         rna_type |-> JPointer(FALSE, "RepeatItem", 0 - 1), socket_type |-> JStr(socket_type)])
\* an entry of value_items, the collection of a node type whose entries own a
\* property named default_value
ValuedRna ==
  <<Prop("default_value", "FLOAT", FALSE, FALSE), Prop("name", "STRING", FALSE, FALSE),
    Prop("rna_type", "POINTER", TRUE, TRUE)>>
ValuedEntry(name, value) ==
  Block(ValuedRna,
        [default_value |-> JFloat(value), name |-> JStr(name),
         rna_type |-> JPointer(FALSE, "ValuedItem", 0 - 1)])

\* nodes.new(t): the type's default instance
CommonVals(t, name) ==
  [color |-> JList(<<JFloat(6), JFloat(6)>>), dimensions |-> JList(<<JFloat(0), JFloat(0)>>),
   hide |-> JBool(FALSE), inputs |-> JCollection(<<>>), label |-> JStr(""),
   location_absolute |-> JList(<<JFloat(0), JFloat(0)>>), name |-> JStr(name),
   rna_type |-> JPointer(FALSE, t, 0 - 1), select |-> JBool(TRUE), type |-> JStr(t)]
FreshNode(t) ==
  Block(NodeRna(t),
    CASE t = "ShaderNodeMath" ->
           [id \in DOMAIN CommonVals(t, "Math") \cup {"operation", "use_clamp"} |->
              CASE id = "operation" -> JStr("ADD")
                [] id = "use_clamp" -> JBool(FALSE)
                [] OTHER -> CommonVals(t, "Math")[id]]
      [] t = "GeometryNodeRepeatOutput" ->
           [id \in DOMAIN CommonVals(t, "Repeat Output")
                   \cup {"active_index", "active_item", "inspection_index", "repeat_items"} |->
              CASE id = "active_index" -> JInt(0)
                [] id = "active_item" -> JPointer(FALSE, "Geometry", 0)
                [] id = "inspection_index" -> JInt(0)
                [] id = "repeat_items" -> JCollection(<<Entry("Geometry", "GEOMETRY")>>)
                [] OTHER -> CommonVals(t, "Repeat Output")[id]]
      [] t = "NodeValuedItems" ->
           [id \in DOMAIN CommonVals(t, "Items") \cup {"value_items"} |->
              CASE id = "value_items" -> JCollection(<<>>)
                [] OTHER -> CommonVals(t, "Items")[id]]
      [] OTHER -> CommonVals(t, "Frame"))
PropTypes == {"ShaderNodeMath", "GeometryNodeRepeatOutput", "NodeFrame", "NodeValuedItems"}

\* the values the user gives a property
Choices(id) ==
  CASE id = "label" -> {JStr(""), JStr("x")}
    [] id = "hide" -> {JBool(FALSE), JBool(TRUE)}
    [] id = "location_absolute" -> {JList(<<JFloat(0), JFloat(0)>>), JList(<<JFloat(2), JFloat(4)>>)}
    [] id = "operation" -> {JStr("ADD"), JStr("MULTIPLY")}
    [] id = "inspection_index" -> {JInt(0), JInt(1)}
    [] id = "repeat_items" ->
         {JCollection(<<>>), JCollection(<<Entry("Geometry", "GEOMETRY")>>),
          JCollection(<<Entry("Geometry", "GEOMETRY"), Entry("x", "FLOAT")>>)}
    [] id = "value_items" ->
         {JCollection(<<>>), JCollection(<<ValuedEntry("a", 0)>>),
          JCollection(<<ValuedEntry("a", 2), ValuedEntry("b", 4)>>)}
    [] OTHER -> {}
TypeOf(node) == node.vals.type.v

PropsIdle ==
  pNode = NoBlock /\ pProps = JNull /\ pApplied = NoBlock /\ pUsed = {} /\ prpc = "idle"

PropsStart ==
  /\ \E t \in PropTypes : pNode = FreshNode(t)
  /\ pProps = JNull /\ pApplied = NoBlock /\ pUsed = {}
  /\ prpc = "edit"

\* the user sets a property of the node
EditProperty ==
  /\ prpc = "edit"
  /\ \E id \in DOMAIN pNode.vals \ Collections : \E val \in Choices(id) :
       pNode' = [pNode EXCEPT !.vals[id] = val]
  /\ UNCHANGED <<pProps, pApplied, pUsed, prpc>>
  /\ UNCHANGED OutsideProps

\* the user adds or removes the entries of a collection
EditEntries ==
  /\ prpc = "edit"
  /\ \E id \in Collections \cap DOMAIN pNode.vals : \E val \in Choices(id) :
       pNode' = [pNode EXCEPT !.vals[id] = val]
  /\ UNCHANGED <<pProps, pApplied, pUsed, prpc>>
  /\ UNCHANGED OutsideProps

\* lines 215 and 228-244: the node's props against its type's default instance
SerializeProps ==
  /\ prpc = "edit"
  /\ pProps' = node_props(pNode, FreshNode(TypeOf(pNode)), TypeOf(pNode))
  /\ prpc' = "done"
  /\ UNCHANGED <<pNode, pApplied, pUsed>>
  /\ UNCHANGED OutsideProps

\* ---- _create_nodes, lines 448-483: the recorded props set on a new node ----

\* bl_rna.properties.get(identifier): the position of the property, None if
\* the type has none of that name
PropAt(idblock, id) ==
  IF \E i \in 1..Len(idblock.rna) : idblock.rna[i].identifier = id
  THEN CHOOSE i \in 1..Len(idblock.rna) : idblock.rna[i].identifier = id
  ELSE None
Writable(idblock, id) == PropAt(idblock, id) # None /\ ~idblock.rna[PropAt(idblock, id)].is_readonly

\* What setting properties yields: the id block, whether an exception was
\* raised, and the identifiers by which properties were addressed
Set(block, used) == [block |-> block, raised |-> FALSE, used |-> used]
Thrown(block, used) == [block |-> block, raised |-> TRUE, used |-> used]

\* collection.bl_rna.functions['new'].parameters, and the entry new() returns
NewParameters(id) ==
  CASE id = "repeat_items" -> <<"socket_type", "name">>
    [] OTHER -> <<"name">>
NewEntry(id) ==
  CASE id = "repeat_items" -> Entry("", "FLOAT")
    [] OTHER -> ValuedEntry("", 0)

\* lines 463-477: the parameters matched to the item's keys, up to the first
\* that the item lacks or holds as a false value
RECURSIVE MatchedParams(_, _, _)
MatchedParams(item, params, j) ==
  IF j > Len(params) THEN <<>>
  ELSE IF ~HasKey(item, params[j]) \/ ~Truthy(Lookup(item, params[j])) THEN <<>>
  ELSE <<params[j]>> \o MatchedParams(item, params, j + 1)

\* lines 481-483: setattr(obj, key, value) for the item's keys from the j-th on
RECURSIVE SetEntryAttrs(_, _, _, _, _)
SetEntryAttrs(obj, item, used_keys, used, j) ==
  IF j > Len(item.v) THEN Set(obj, used)
  ELSE LET key == item.v[j][1]
       IN IF key \in used_keys THEN SetEntryAttrs(obj, item, used_keys, used, j + 1)
          ELSE IF ~Writable(obj, key) THEN Thrown(obj, used \cup {key})   \* AttributeError
          ELSE SetEntryAttrs([obj EXCEPT !.vals[key] = item.v[j][2]], item, used_keys,
                             used \cup {key}, j + 1)

\* lines 460-483: one entry made from its item; new() with too few arguments
\* raises TypeError
MakeEntry(id, item, used) ==
  LET params == NewParameters(id)
      matched == MatchedParams(item, params, 1)
      obj == [NewEntry(id) EXCEPT !.vals =
                [a \in DOMAIN @ |-> IF a \in Range(matched) THEN Lookup(item, a) ELSE @[a]]]
  IN IF Len(matched) < Len(params) THEN Thrown(NewEntry(id), used \cup Range(matched))
     ELSE SetEntryAttrs(obj, item, Range(matched), used \cup Range(matched), 1)

\* lines 458-483: the entries made from the items, from the j-th on
RECURSIVE MakeEntries(_, _, _, _, _)
MakeEntries(id, items, entries, used, j) ==
  IF j > Len(items) THEN Set(entries, used)
  ELSE LET Next1(r) == IF r.raised THEN Thrown(entries, r.used)
                       ELSE MakeEntries(id, items, Append(entries, r.block), r.used, j + 1)
       IN Next1(MakeEntry(id, items[j], used))

\* lines 448-483: the recorded props set on node, from the j-th on
RECURSIVE apply_props(_, _, _, _, _)
apply_props(node, props, location_offset, used, j) ==
  IF j > Len(props.v) THEN Set(node, used)
  ELSE
    LET k == long_prop_name(props.v[j][1])
        v == props.v[j][2]
        prop == PropAt(node, k)
        moved == IF k = "location_absolute"
                 THEN JList(<<JFloat(v.v[1].v + location_offset[1]),
                              JFloat(v.v[2].v + location_offset[2])>>)
                 ELSE v
        Filled(r) == IF r.raised THEN Thrown(node, r.used)
                      ELSE apply_props([node EXCEPT !.vals[k] = JCollection(r.block)],
                                       props, location_offset, r.used, j + 1)
    IN IF prop = None THEN Thrown(node, used \cup {k})          \* None has no is_readonly
       ELSE IF ~node.rna[prop].is_readonly
            THEN apply_props([node EXCEPT !.vals[k] = moved], props, location_offset,
                             used \cup {k}, j + 1)
       ELSE IF node.rna[prop].type = "COLLECTION"
            THEN Filled(MakeEntries(k, v.v, <<>>, used \cup {k}, 1))
       ELSE apply_props(node, props, location_offset, used \cup {k}, j + 1)

\* lines 423 and 448-483: a new node of the recorded type given the recorded props
ApplyProps ==
  /\ prpc = "done"
  /\ \E r \in {apply_props(FreshNode(TypeOf(pNode)), pProps, <<0, 0>>, {}, 1)} :
       /\ pApplied' = r.block
       /\ pUsed' = r.used
       /\ prpc' = IF r.raised THEN "raised" ELSE "applied"
  /\ UNCHANGED <<pNode, pProps>>
  /\ UNCHANGED OutsideProps

\* ---- documents whose socket indices were edited, given to _create_nodes ----

\* obj[key] = val on a key the mapping has
SetIn(d, key, val) ==
  [d EXCEPT !.v = [i \in 1..Len(@) |-> IF @[i][1] = key THEN Pair(key, val) ELSE @[i]]]
\* the key of the i-th pair replaced
ReKey(d, i, key) == [d EXCEPT !.v[i] = Pair(key, @[2])]
RecordsOf(doc) == Lookup(doc, "nodes").v
WithRecord(doc, r, nd) == SetIn(doc, "nodes", JList([RecordsOf(doc) EXCEPT ![r] = nd]))

\* the trees whose documents are edited: a Value node linked to a changed Math
\* node, two changed Math nodes in a row, two nodes linked to a third
IndexTrees ==
  LET unwired == [parent |-> None, paired_output |-> None, sources |-> <<>>]
      free == [parent |-> None, paired_output |-> None, sources |-> <<None, None>>]
      from(a, b) == [parent |-> None, paired_output |-> None, sources |-> <<a, b>>]
  IN { Wired(<<NodeKind(1, "n1"), NodeKind(4, "n2")>>, <<unwired, from(1, None)>>, 0),
       Wired(<<NodeKind(4, "n1"), NodeKind(4, "n2")>>, <<free, from(1, None)>>, 0),
       Wired(<<NodeKind(2, "n1"), NodeKind(3, "n2"), NodeKind(4, "n3")>>,
             <<unwired, free, from(1, 2)>>, 0) }
\* the socket keys and source indices written into a document
EditedKeys == {"1", "2", "3"} \cup Range(Negatives)
EditedIndices == {0 - 3, 0 - 2, 0 - 1, 1, 2}

IndexStart ==
  /\ srcTree \in IndexTrees
  /\ ndoc = nodes_to_dict(srcTree, SelectedNodes(srcTree))
  /\ tampered = FALSE
  /\ dstTree = EmptyTree
  /\ created = <<>>
  /\ npc = "paste"

\* the document is edited before it is pasted: the key of one SocketRecord is
\* replaced by another index
ShiftSocketKey ==
  /\ npc = "paste"
  /\ ~tampered
  /\ \E r \in 1..Len(RecordsOf(ndoc)) : \E dir \in {"inputs", "outputs"} :
       /\ HasKey(RecordsOf(ndoc)[r], dir)
       /\ \E i \in 1..Len(Lookup(RecordsOf(ndoc)[r], dir).v) :
            \E key \in EditedKeys \ Keys(Lookup(RecordsOf(ndoc)[r], dir)) :
               ndoc' = WithRecord(ndoc, r,
                         SetIn(RecordsOf(ndoc)[r], dir,
                               ReKey(Lookup(RecordsOf(ndoc)[r], dir), i, key)))
  /\ tampered' = TRUE
  /\ UNCHANGED <<srcTree, dstTree, created, npc>>
  /\ UNCHANGED OutsideRound

\* the source output index of one recorded link is replaced by another index
ShiftLinkIndex ==
  /\ npc = "paste"
  /\ ~tampered
  /\ \E r \in 1..Len(RecordsOf(ndoc)) :
       /\ HasKey(RecordsOf(ndoc)[r], "inputs")
       /\ \E i \in 1..Len(Lookup(RecordsOf(ndoc)[r], "inputs").v) :
            LET ins == Lookup(RecordsOf(ndoc)[r], "inputs")
                sd == ins.v[i][2]
            IN /\ HasKey(sd, "links")
               /\ \E j \in 1..Len(Lookup(sd, "links").v) : \E index \in EditedIndices :
                    ndoc' = WithRecord(ndoc, r,
                      SetIn(RecordsOf(ndoc)[r], "inputs",
                        [ins EXCEPT !.v[i] =
                           Pair(@[1], SetIn(sd, "links",
                             JList([Lookup(sd, "links").v EXCEPT ![j] =
                                      JList(<<@.v[1], JInt(index)>>)])))]))
  /\ tampered' = TRUE
  /\ UNCHANGED <<srcTree, dstTree, created, npc>>
  /\ UNCHANGED OutsideRound

\* ---- documents with a property the host does not have ----

\* the key and the values of a property that no node and no socket has, as a
\* later host version may write it
UnknownKey == "future_prop"
UnknownValues == {JInt(1), JStr("x")}

\* the document is edited before it is pasted: a NodeRecord's props gets the
\* unknown key, as its first or as its last
AddNodeProp ==
  /\ npc = "paste"
  /\ ~tampered
  /\ \E r \in 1..Len(RecordsOf(ndoc)) : \E val \in UnknownValues : \E first \in BOOLEAN :
       LET props == Lookup(RecordsOf(ndoc)[r], "props")
           added == IF first THEN <<Pair(UnknownKey, val)>> \o props.v
                    ELSE Append(props.v, Pair(UnknownKey, val))
       IN ndoc' = WithRecord(ndoc, r, SetIn(RecordsOf(ndoc)[r], "props", JDict(added)))
  /\ tampered' = TRUE
  /\ UNCHANGED <<srcTree, dstTree, created, npc>>
  /\ UNCHANGED OutsideRound

\* a SocketRecord gets the unknown key
AddSocketProp ==
  /\ npc = "paste"
  /\ ~tampered
  /\ \E r \in 1..Len(RecordsOf(ndoc)) : \E dir \in {"inputs", "outputs"} :
       /\ HasKey(RecordsOf(ndoc)[r], dir)
       /\ \E i \in 1..Len(Lookup(RecordsOf(ndoc)[r], dir).v) : \E val \in UnknownValues :
            LET sockets == Lookup(RecordsOf(ndoc)[r], dir)
            IN ndoc' = WithRecord(ndoc, r,
                 SetIn(RecordsOf(ndoc)[r], dir,
                       [sockets EXCEPT !.v[i] =
                          Pair(@[1], JDict(<<Pair(UnknownKey, val)>> \o @[2].v))]))
  /\ tampered' = TRUE
  /\ UNCHANGED <<srcTree, dstTree, created, npc>>
  /\ UNCHANGED OutsideRound

----------------------------------------------------------------------------
(* Part 9: copy, then the front end of paste                               *)

\* A text is a sequence of symbols. A string or key of a node document has
\* no quote and no backslash in it; its characters are written as one symbol
Chars(s) == IF s = "" THEN <<>> ELSE <<s>>
String(chars) == IF chars = <<>> THEN "" ELSE chars[1]
RECURSIVE Spelled(_)
Spelled(x) ==
  CASE x.k = "str" -> [x EXCEPT !.v = Chars(@)]
    [] x.k = "list" -> [x EXCEPT !.v = [i \in 1..Len(@) |-> Spelled(@[i])]]
    [] x.k = "dict" -> [x EXCEPT !.v = [i \in 1..Len(@) |-> Pair(Chars(@[i][1]), Spelled(@[i][2]))]]
    [] OTHER -> x
RECURSIVE Unspelled(_)
Unspelled(x) ==
  CASE x.k = "str" -> [x EXCEPT !.v = String(@)]
    [] x.k = "list" -> [x EXCEPT !.v = [i \in 1..Len(@) |-> Unspelled(@[i])]]
    [] x.k = "dict" -> [x EXCEPT !.v = [i \in 1..Len(@) |-> Pair(String(@[i][1]), Unspelled(@[i][2]))]]
    [] OTHER -> x

\* operators.py line 8
_message == "Copy/Paste Nodes JSON export (https://extensions.blender.org/add-ons/copy-paste-nodes/)"

\* str.splitlines(): the lines of a text, a last empty line not counted
splitlines(text) ==
  LET breaks == {i \in 1..Len(text) : text[i] = Newline}
      starts == {s \in {1} \cup {i + 1 : i \in breaks} : s <= Len(text)}
      Start(n) == CHOOSE s \in starts : Cardinality({r \in starts : r < s}) = n - 1
      End(s) == CHOOSE b \in breaks \cup {Len(text) + 1} :
                  b >= s /\ \A c \in breaks : c >= s => b <= c
      Line(s) == SubSeq(text, s, End(s) - 1)
  IN [n \in 1..Cardinality(starts) |-> Line(Start(n))]
\* line.startswith('#')
StartsWithHash(line) == line # <<>> /\ line[1] = "#"

\* the tree with the nodes of a set selected and the others not
Select(tree, chosen) ==
  [tree EXCEPT !.nodes = [n \in 1..Len(@) |-> [@[n] EXCEPT !.attrs.select = JBool(n \in chosen)]]]

CopyIdle ==
  /\ kTree = EmptyTree /\ kWidth = 0 /\ kClipboard = <<>> /\ kDoc = JNull
  /\ kResult = Passed /\ kpc = "idle"

CopyStart ==
  /\ \E tree \in IndexTrees : \E chosen \in SUBSET (1..Len(tree.nodes)) :
       kTree = Select(tree, chosen)
  /\ kWidth \in {NarrowInline, DefaultMaxInline}
  /\ kClipboard = <<>> /\ kDoc = JNull /\ kResult = Passed /\ kpc = "copy"

\* NODE_OT_clipboard_copy_json.execute, operators.py lines 28-36
CopyExecute ==
  /\ kpc = "copy"
  /\ kClipboard' = <<"#", " ", _message, Newline>>
                   \o dumps_compact(Spelled(nodes_to_dict(kTree, SelectedNodes(kTree))),
                                    DefaultIndent, kWidth)
  /\ kpc' = "paste"
  /\ UNCHANGED <<kTree, kWidth, kDoc, kResult>>
  /\ UNCHANGED OutsideCopy

\* NODE_OT_clipboard_paste_json.execute, operators.py lines 59-70
PasteRead ==
  /\ kpc = "paste"
  /\ LET lines_ == splitlines(kClipboard)
         Loaded(json_lines) == json_parse(Join(json_lines, <<Newline>>))
         Tried(loaded) ==
           IF loaded = JSONDecodeError
           THEN kpc' = "cancelled" /\ UNCHANGED kDoc
           ELSE kpc' = "validate" /\ kDoc' = Unspelled(loaded)
     IN IF lines_ = <<>> THEN kpc' = "cancelled" /\ UNCHANGED kDoc
        ELSE Tried(Loaded(IF StartsWithHash(lines_[1]) THEN Tail(lines_) ELSE lines_))
  /\ UNCHANGED <<kTree, kWidth, kClipboard, kResult>>
  /\ UNCHANGED OutsideCopy

\* operators.py lines 71-75
PasteValidate ==
  /\ kpc = "validate"
  /\ kResult' = validate_schema(kDoc, SCHEMA, RootPath)
  /\ kpc' = IF kResult' = Passed THEN "done" ELSE "cancelled"
  /\ UNCHANGED <<kTree, kWidth, kClipboard, kDoc>>
  /\ UNCHANGED OutsideCopy

----------------------------------------------------------------------------
(* The specifications                                                      *)

InitCollect == CollectStart /\ ValidateIdle /\ OracleIdle /\ ReuseIdle /\ RoundIdle /\ PasteIdle /\ DumpsIdle /\ PropsIdle /\ CopyIdle
NextCollect == Collect \/ TopoStep \/ TopoReturn \/ CreateTree \/ CreateRoot
SpecCollect == InitCollect /\ [][NextCollect]_vars

InitValidate == ValidateStart /\ CollectIdle /\ OracleIdle /\ ReuseIdle /\ RoundIdle /\ PasteIdle /\ DumpsIdle /\ PropsIdle /\ CopyIdle
NextValidate == RemoveKey \/ ReplaceValue \/ AddKey \/ Validate
SpecValidate == InitValidate /\ [][NextValidate]_vars

InitOracle == OracleStart /\ CollectIdle /\ ValidateIdle /\ ReuseIdle /\ RoundIdle /\ PasteIdle /\ DumpsIdle /\ PropsIdle /\ CopyIdle
NextOracle ==
  \/ ReturnEmpty \/ NewDefaultsGroup \/ NewDefaultNode \/ NewDefaultSocket
  \/ PairDefault \/ EnterTry \/ SerializeRoot \/ SerializeTree \/ LeaveTry
  \/ RemoveDefaultNode \/ RemoveDefaultsGroup
SpecOracle == InitOracle /\ [][NextOracle]_vars

InitReuse == ReuseStart /\ CollectIdle /\ ValidateIdle /\ OracleIdle /\ RoundIdle /\ PasteIdle /\ DumpsIdle /\ PropsIdle /\ CopyIdle
NextReuse == SerializeInterface \/ ResolveGroup
SpecReuse == InitReuse /\ [][NextReuse]_vars

InitRound == RoundStart /\ CollectIdle /\ ValidateIdle /\ OracleIdle /\ ReuseIdle /\ PasteIdle /\ DumpsIdle /\ PropsIdle /\ CopyIdle
NextRound == Copy \/ DropRecord \/ CreateNewNodes \/ SetParentsAndProps \/ CreateAllLinks
             \/ SetAllSocketValues
SpecRound == InitRound /\ [][NextRound]_vars

InitPaste == PasteStart /\ CollectIdle /\ ValidateIdle /\ OracleIdle /\ ReuseIdle /\ RoundIdle /\ DumpsIdle /\ PropsIdle /\ CopyIdle
NextPaste == ReadClipboard \/ Decode \/ ValidateDocument \/ Deselect \/ MakeNodeGroups
             \/ Locate \/ CreateRootNodes
SpecPaste == InitPaste /\ [][NextPaste]_vars

InitDumps == DumpsStart /\ CollectIdle /\ ValidateIdle /\ OracleIdle /\ ReuseIdle /\ RoundIdle /\ PasteIdle /\ PropsIdle /\ CopyIdle
NextDumps == Dump \/ Load
SpecDumps == InitDumps /\ [][NextDumps]_vars

InitProps == PropsStart /\ CollectIdle /\ ValidateIdle /\ OracleIdle /\ ReuseIdle /\ RoundIdle /\ PasteIdle /\ DumpsIdle /\ CopyIdle
NextProps == EditProperty \/ EditEntries \/ SerializeProps \/ ApplyProps
SpecProps == InitProps /\ [][NextProps]_vars

InitIndex == IndexStart /\ CollectIdle /\ ValidateIdle /\ OracleIdle /\ ReuseIdle /\ PasteIdle /\ DumpsIdle /\ PropsIdle /\ CopyIdle
NextIndex == ShiftSocketKey \/ ShiftLinkIndex \/ CreateNewNodes \/ SetParentsAndProps \/ CreateAllLinks \/ SetAllSocketValues
SpecIndex == InitIndex /\ [][NextIndex]_vars

NextUnknown == AddNodeProp \/ AddSocketProp \/ CreateNewNodes \/ SetParentsAndProps \/ CreateAllLinks \/ SetAllSocketValues
SpecUnknown == InitIndex /\ [][NextUnknown]_vars

InitCopy == CopyStart /\ CollectIdle /\ ValidateIdle /\ OracleIdle /\ ReuseIdle /\ RoundIdle /\ PasteIdle /\ DumpsIdle /\ PropsIdle
NextCopy == CopyExecute \/ PasteRead \/ PasteValidate
SpecCopy == InitCopy /\ [][NextCopy]_vars

----------------------------------------------------------------------------
(* The claims                                                              *)

\* C1: with include_groups the document's tree order places every tree before
\* every tree that holds a node referencing it, and dict_to_nodes never raises
\* 'node group used before definition' on it.
C1_TreeOrderBeforeUse ==
  /\ cpc # "raised"
  /\ (cpc \in {"create", "done"} /\ include_groups) =>
        \A a \in Range(docTrees) : \A b \in Referenced(a) :
           b \in Range(docTrees) /\ IndexOf(docTrees, b) < IndexOf(docTrees, a)

\* C3: on every exit of nodes_to_dict, by return or by exception, the '.defaults'
\* group and every default instance created in it are gone from the host.
C3_DefaultsRemovedOnExit ==
  opc \in {"returned", "raised"} =>
     ~defaultsGroup /\ default_nodes = {} /\ ~default_socket

\* The offending locations of a document: a required key that is absent, a value
\* whose kind is not the kind the schema declares there (an integer is not a
\* boolean).
RECURSIVE Offences(_, _, _)
Offences(obj, schema, path) ==
  CASE schema.s = "type" ->
         IF obj.k # schema.t THEN {WrongType(path)} ELSE {}
    [] schema.s = "list" ->
         IF obj.k # "list" THEN {WrongType(path)}
         ELSE UNION {Offences(obj.v[i], schema.item, Append(path, IdxStep(i - 1))) :
                     i \in 1..Len(obj.v)}
    [] schema.s = "dict" ->
         IF obj.k # "dict" THEN {WrongType(path)}
         ELSE UNION {LET f == schema.fields[i]
                     IN IF HasKey(obj, f.key)
                        THEN Offences(Lookup(obj, f.key), f.schema, Append(path, KeyStep(f.key)))
                        ELSE IF f.optional THEN {} ELSE {MissingKey(path, f.key)} :
                     i \in 1..Len(schema.fields)}
    [] schema.s = "tuple" ->
         IF obj.k # "list" \/ Len(obj.v) # Len(schema.items) THEN {WrongType(path)}
         ELSE UNION {Offences(obj.v[i], schema.items[i], Append(path, IdxStep(i - 1))) :
                     i \in 1..Len(obj.v)}
    [] schema.s = "mapof" ->
         IF obj.k # "dict" THEN {WrongType(path)}
         ELSE UNION {Offences(obj.v[i][2], schema.value, Append(path, KeyStep(obj.v[i][1]))) :
                     i \in 1..Len(obj.v)}

\* C4: validate_schema raises a TypeError that names an offending location
\* whenever the document has one.
C4_RejectsAtOffendingPath ==
  (vpc = "validated" /\ Offences(vdoc, SCHEMA, RootPath) # {}) =>
     vresult \in Offences(vdoc, SCHEMA, RootPath)

OnlyAdds == vedits # <<>> /\ \A i \in 1..Len(vedits) : vedits[i].op = "add"
Accepted(doc) == validate_schema(doc, SCHEMA, RootPath) = Passed

\* C5 as stated: keys the schema does not name, added to any mapping of an
\* accepted document, leave it accepted.
C5_ExtraKeysAnywhere ==
  (vpc = "validated" /\ OnlyAdds /\ Accepted(vbase)) => vresult = Passed

\* C5 as amended: keys the schema does not name, added to fixed-shape mappings of
\* an accepted document (or where no schema reaches), leave it accepted; an entry
\* added to a homogeneous map (inputs, outputs, node_trees) is validated against
\* the map's value schema and leaves the document accepted exactly when it fits.
C5_ExtraKeysFixedShape ==
  (vpc = "validated" /\ OnlyAdds /\ Accepted(vbase)) =>
     (vresult = Passed <=> \A i \in 1..Len(vedits) : vedits[i].fits)

C5_Witness ==
  /\ vpc = "validated" /\ OnlyAdds /\ Accepted(vbase)
  /\ \E i \in 1..Len(vedits) : vedits[i].target = "dict"
  /\ vresult = Passed

\* a recorded value equals a live one: floats in single precision, lists by element
RECURSIVE SameValue(_, _)
SameValue(v, live) ==
  CASE v.k = "float" /\ live.k = "float" -> F32(v.v) = F32(live.v)
    [] v.k = "list" /\ live.k = "list" ->
         Len(v.v) = Len(live.v) /\ \A i \in 1..Len(v.v) : SameValue(v.v[i], live.v[i])
    [] v.k = live.k /\ v.k \notin {"float", "list"} -> v.v = live.v
    [] OTHER -> FALSE

\* every recorded property of every recorded item equals the live item's
RecordMatchesLive ==
  LET items == Lookup(rRecord, "items_tree").v
  IN /\ Len(items) <= Len(rLive)
     /\ \A i \in 1..Len(items) : \A j \in 1..Len(items[i].v) :
          /\ long_prop_name(items[i].v[j][1]) \in DOMAIN rLive[i]
          /\ SameValue(items[i].v[j][2], rLive[i][long_prop_name(items[i].v[j][1])])

\* C9: with reuse_existing and a group of that name and category, no group is
\* created when every recorded item property equals the live one, and one is
\* created when any recorded property differs or the live interface is shorter.
C9_ReuseIffInterfaceEqual ==
  (rpc \in {"done", "raised"} /\ rReuse /\ rExists /\ rType = rLiveType) =>
     /\ rpc = "done"
     /\ rCreated <=> ~RecordMatchesLive

\* ---- claims about Part 5 ----

\* the selection S, and the created node that bears the name of node n of S
InS == Range(SelectedNodes(srcTree))
HasTwin(n) == \E t \in 1..Len(dstTree.nodes) : NameOf(dstTree, t) = NameOf(srcTree, n)
Twin(n) == CHOOSE t \in 1..Len(dstTree.nodes) : NameOf(dstTree, t) = NameOf(srcTree, n)
TwinOrNone(n) == IF n \in InS THEN Twin(n) ELSE None
SameSockets(a, b) ==
  /\ Len(a) = Len(b)
  /\ \A i \in 1..Len(a) : /\ PyEq(a[i].default_value, b[i].default_value)
                          /\ a[i].hide = b[i].hide
NamedLinks(tree, among) ==
  {<<NameOf(tree, l.from_node), l.from_socket, NameOf(tree, l.to_node), l.to_socket>> :
     l \in {x \in tree.links : x.from_node \in among /\ x.to_node \in among}}
NoOutsideSource == \A l \in srcTree.links : l.to_node \in InS => l.from_node \in InS
GraphEqualsSelection ==
  /\ Len(dstTree.nodes) = Cardinality(InS)
  /\ \A n \in InS :
       /\ HasTwin(n)
       /\ LET src == srcTree.nodes[n]
              dst == dstTree.nodes[Twin(n)]
          IN /\ dst.bl_idname = src.bl_idname
             /\ \A k \in Range(NodeProps) \ skip_props : PyEq(dst.attrs[k], src.attrs[k])
             /\ SameSockets(dst.inputs, src.inputs)
             /\ SameSockets(dst.outputs, src.outputs)
             /\ dst.parent = TwinOrNone(src.parent)
             /\ dst.paired_output = TwinOrNone(src.paired_output)
  /\ NamedLinks(dstTree, 1..Len(dstTree.nodes)) = NamedLinks(srcTree, InS)

\* C2: for a selection S with unique node names and no link from outside S,
\* dict_to_nodes(nodes_to_dict(S)) creates a graph equal to S on the node
\* properties that are not excluded, the socket values and hidden flags, the
\* links and the parent and paired-output relations.
C2_RoundTrip ==
  (~tampered /\ NoOutsideSource) =>
     /\ npc # "raised"
     /\ npc = "done" => GraphEqualsSelection

\* the NodeRecords of the batch and the names they bear
Batch == Lookup(ndoc, "nodes").v
BatchNames == {Lookup(Lookup(Batch[i], "props"), "name").v : i \in 1..Len(Batch)}
NodeOf(name) == created[CHOOSE j \in 1..Len(created) : created[j].name = name].node
NodeOrNone(name) == IF name \in BatchNames THEN NodeOf(name) ELSE None
RecordedLinks(nd) ==
  IF ~HasKey(nd, "inputs") THEN {}
  ELSE LET ins == Lookup(nd, "inputs").v
       IN UNION {IF HasKey(ins[i][2], "links")
                 THEN {<<ins[i][1], Lookup(ins[i][2], "links").v[j].v[1].v,
                         Lookup(ins[i][2], "links").v[j].v[2].v>> :
                          j \in 1..Len(Lookup(ins[i][2], "links").v)}
                 ELSE {} : i \in 1..Len(ins)}
Dangling(nd) == {l \in RecordedLinks(nd) : l[2] \notin BatchNames}
RecordCreated(nd, n) ==
  LET node == dstTree.nodes[n]
      props == Lookup(nd, "props").v
  IN /\ node.bl_idname = Lookup(nd, "bl_idname").v
     /\ \A i \in 1..Len(props) : PyEq(node.attrs[long_prop_name(props[i][1])], props[i][2])
     /\ node.parent = IF HasKey(nd, "parent") THEN NodeOrNone(Lookup(nd, "parent").v) ELSE None
     /\ node.paired_output = IF HasKey(nd, "paired_output")
                             THEN NodeOrNone(Lookup(nd, "paired_output").v) ELSE None
     /\ {l \in dstTree.links : l.to_node = n} =
          {Link(NodeOf(l[2]), l[3], n, ParseInt(l[1])) : l \in RecordedLinks(nd) \ Dangling(nd)}
     /\ \A dir \in {"inputs", "outputs"} :
          HasKey(nd, dir) =>
            \A i \in 1..Len(Lookup(nd, dir).v) :
               LET sd == Lookup(nd, dir).v[i][2]
                   socket == node[dir][ParseInt(Lookup(nd, dir).v[i][1]) + 1]
               IN /\ HasKey(sd, "_val") => PyEq(socket.default_value, Lookup(sd, "_val"))
                  /\ HasKey(sd, "hide") => socket.hide = Lookup(sd, "hide")

\* C10: in _create_nodes a recorded link, parent or paired_output naming a
\* node that is not in the batch raises no exception and yields no link, no
\* parent, no pairing, while every node of the batch is created with its
\* properties, its socket values and its other links, parent and pairing.
C10_DanglingNamesDropped ==
  /\ npc # "raised"
  /\ npc = "done" =>
       /\ Len(dstTree.nodes) = Len(Batch)
       /\ Len(created) = Len(Batch)
       /\ \A j \in 1..Len(created) : RecordCreated(created[j].nd, created[j].node)

\* a batch with a link whose source is absent, another link of it created
C10_Witness ==
  /\ npc = "done"
  /\ \E i \in 1..Len(Batch) : Dangling(Batch[i]) # {}
  /\ dstTree.links # {}

\* a batch with a parent that is absent
DanglingParentSeen ==
  /\ npc = "done"
  /\ \E i \in 1..Len(Batch) : /\ HasKey(Batch[i], "parent")
                              /\ Lookup(Batch[i], "parent").v \notin BatchNames
\* a batch with a paired_output that is absent
DanglingPairSeen ==
  /\ npc = "done"
  /\ \E i \in 1..Len(Batch) : /\ HasKey(Batch[i], "paired_output")
                              /\ Lookup(Batch[i], "paired_output").v \notin BatchNames

\* ---- claims about Part 6 ----

\* what the clipboard decodes to
Decoded == json_loads(IF clipboard # <<>> /\ clipboard[1].kind = "comment"
                      THEN Tail(clipboard) ELSE clipboard)
PastUnchanged == editTree = before.tree /\ nodeGroups = before.groups
PastValidation == ppc \in {"deselect", "trees", "locate", "create", "raised"}
                  \/ (ppc = "returned" /\ presult = "FINISHED")

\* C6: a document whose integer version differs from JSON_SCHEMA_VERSION is
\* rejected or warned about: the paste never goes on to dict_to_nodes and the
\* mutation of the graph without a report.
C6_VersionMismatchReported ==
  (/\ ppc \notin {"start", "decode"}
   /\ Decoded.k = "dict" /\ HasKey(Decoded, "version")
   /\ Lookup(Decoded, "version").k = "int"
   /\ Lookup(Decoded, "version").v # JSON_SCHEMA_VERSION)
  => (~PastValidation \/ reports # <<>>)

\* C7: if the clipboard text fails to decode, or validate_schema raises, the
\* paste reports an error and returns CANCELLED, and the edit tree and the
\* node groups are as they were: nothing is created, no selection flag cleared.
C7_NoMutationBeforeValidation ==
  (Decoded = JSONDecodeError \/ validate_schema(Decoded, SCHEMA, RootPath) # Passed) =>
     /\ PastUnchanged
     /\ ~PastValidation
     /\ ppc = "returned" => presult = "CANCELLED" /\ Len(reports) = 1

\* a document that fails validation was cancelled, the edit tree holding
\* selected nodes
C7_Witness ==
  /\ ppc = "returned"
  /\ reports = <<"Schema error in JSON">>
  /\ presult = "CANCELLED"
  /\ \E n \in 1..Len(editTree.nodes) : IsSelected(editTree.nodes[n])

\* a clipboard that is no JSON was cancelled
DecodeErrorSeen == ppc = "returned" /\ reports = <<"The clipboard could not be decoded as JSON">>
\* a paste that created nodes and node groups
PasteFinished == presult = "FINISHED" /\ nodeGroups # before.groups /\ editTree # before.tree

\* ---- Part 7 claims ----

\* the keys of a document, at every depth
RECURSIVE AllKeys(_)
AllKeys(x) ==
  IF x.k = "dict" THEN UNION {{x.v[i][1]} \cup AllKeys(x.v[i][2]) : i \in 1..Len(x.v)}
  ELSE IF x.k = "list" THEN UNION {AllKeys(x.v[i]) : i \in 1..Len(x.v)}
  ELSE {}
PlainKeys(x) == \A key \in AllKeys(x) : \A i \in 1..Len(key) : key[i] \notin {Quote, Backslash}

\* C8: parsing the text dumps_compact produced yields the original document,
\* for every document of mappings with string keys, lists, strings, integers,
\* booleans and null, whatever characters its keys contain.
C8_ParseOfRenderIsDocument == dpc = "done" => dParsed = dObj

\* The same, for the documents whose keys hold no quote and no backslash.
PlainKeysRoundTrip == (dpc = "done" /\ PlainKeys(dObj)) => dParsed = dObj
\* A document wider than max_inline, with escaped characters in a string, read back
ManyLinesSeen ==
  /\ dpc = "done" /\ dParsed = dObj
  /\ \E i \in 1..Len(dText) : dText[i] = Newline
  /\ \E i \in 1..Len(dText) : dText[i] = Backslash
\* A key with a quote makes a text that is no JSON
QuoteKeyUnreadable ==
  /\ dpc = "done" /\ dParsed = JSONDecodeError
\* A key with a backslash makes a text that reads as another document
BackslashKeyMisread ==
  /\ dpc = "done" /\ dParsed # JSONDecodeError /\ dParsed # dObj

\* ---- Part 8 claims ----

AtDefault == pNode = FreshNode(TypeOf(pNode))
OwnsCollection == \E i \in 1..Len(pNode.rna) :
  pNode.rna[i].type = "COLLECTION" /\ pNode.rna[i].identifier \notin skip_props

\* C11: a node of any type, also one that owns collection-valued properties,
\* whose every property equals the value on its type's default instance gets a
\* NodeRecord whose props has the one key 'name'.
C11_DefaultNodeOnlyName == (prpc = "done" /\ AtDefault) => Keys(pProps) = {"name"}

\* The same for the types that own no collection-valued property
PlainDefaultOnlyName == (prpc = "done" /\ AtDefault /\ ~OwnsCollection) => Keys(pProps) = {"name"}
\* Every changed property of a type without collections is recorded
ChangedRecorded ==
  (prpc = "done" /\ ~OwnsCollection) =>
     \A id \in {"label", "hide", "location_absolute", "operation"} \cap DOMAIN pNode.vals :
        HasKey(pProps, short_prop_name(id)) <=> pNode.vals[id] # FreshNode(TypeOf(pNode)).vals[id]
\* A default node with a collection is recorded with the collection's entries
DefaultCollectionRecorded ==
  /\ prpc = "done" /\ AtDefault /\ HasKey(pProps, "repeat_items")

\* the identifiers of the properties of the node and of its collections' entries
RECURSIVE Identifiers(_)
Identifiers(idblock) ==
  {idblock.rna[i].identifier : i \in 1..Len(idblock.rna)}
  \cup UNION {UNION {Identifiers(idblock.vals[id].v[j]) : j \in 1..Len(idblock.vals[id].v)} :
                id \in Collections \cap DOMAIN idblock.vals}
Abbreviated == {"location_absolute", "default_value"}
Aliases == {"_loc", "_val"}

\* C12: the abbreviation table is reversible on every property key, keys
\* outside the table pass through both ways, and every key the serializer wrote
\* through _short_prop_name, at node level and at collection-entry level, is
\* mapped back before the deserializer addresses a property by it: the
\* deserializer addresses properties by their identifiers only, and raises
\* nothing.
C12_KeysMappedBack ==
  /\ \A k \in Identifiers(pNode) :
       /\ long_prop_name(short_prop_name(k)) = k
       /\ k \notin Abbreviated \cup Aliases =>
            short_prop_name(k) = k /\ long_prop_name(k) = k
  /\ prpc \in {"applied", "raised"} =>
       /\ pUsed \subseteq Identifiers(pNode)
       /\ prpc = "applied"

\* The same for the nodes whose collection entries own no abbreviated property
C12_NodeLevelMappedBack ==
  (prpc \in {"applied", "raised"} /\ ~(\E id \in Abbreviated : id \in Identifiers(pNode) \ {"location_absolute"}))
    => (pUsed \subseteq Identifiers(pNode) /\ prpc = "applied")
\* a moved node with a repeat item added comes back with the same values
AppliedCollectionSeen ==
  /\ prpc = "applied"
  /\ "repeat_items" \in DOMAIN pApplied.vals
  /\ Len(pApplied.vals["repeat_items"].v) = 2
  /\ "location_absolute" \in pUsed
  /\ pApplied.vals = pNode.vals
\* an entry's abbreviated key is used as it is
AliasUsedSeen == prpc = "raised" /\ "_val" \in pUsed

\* ---- claims about positions ----

TopRecords == Lookup(nodes_dict, "nodes").v
RecordedLocation(nd) == GetOr(GetOr(nd, "props", JDict(<<>>)), "_loc", JNull)
\* the recorded absolute positions of the top-level records
RecordedAt(records) ==
  {<<Num(RecordedLocation(records[i]).v[1]), Num(RecordedLocation(records[i]).v[2])>> :
     i \in {j \in 1..Len(records) : RecordedLocation(records[j]) # JNull}}
Least(S) == CHOOSE x \in S : \A y \in S : x <= y
Most(S) == CHOOSE x \in S : \A y \in S : x >= y
\* the center of their bounding box, and the target position minus that center
BoxCenter(points) ==
  <<(Least({p[1] : p \in points}) + Most({p[1] : p \in points})) \div 2,
    (Least({p[2] : p \in points}) + Most({p[2] : p \in points})) \div 2>>
Delta(points, target) == <<target[1] - BoxCenter(points)[1], target[2] - BoxCenter(points)[2]>>
\* where a record's node sits before any translation: at the recorded position,
\* or where a new node is made
Untranslated(nd) ==
  IF RecordedLocation(nd) = JNull THEN <<0, 0>>
  ELSE <<Num(RecordedLocation(nd).v[1]), Num(RecordedLocation(nd).v[2])>>
LocationOf(node) == <<node.attrs.location_absolute.v[1].v, node.attrs.location_absolute.v[2].v>>
PasteDone == ppc = "returned" /\ presult = "FINISHED"
\* the top-level node made from record j
TopNode(j) == editTree.nodes[Len(before.tree.nodes) + j]
TopTranslated(j) ==
  LocationOf(TopNode(j)) =
    <<Untranslated(TopRecords[j])[1] + Delta(RecordedAt(TopRecords), cursor_location)[1],
      Untranslated(TopRecords[j])[2] + Delta(RecordedAt(TopRecords), cursor_location)[2]>>
\* the node groups the paste made, and their records
NewGroups == {g \in 1..Len(nodeGroups) : g > Len(before.groups)}
GroupRecords(g) ==
  Lookup(Lookup(Lookup(nodes_dict, "node_trees"),
                CHOOSE name \in Keys(Lookup(nodes_dict, "node_trees")) :
                  \E t \in 1..Len(pTrees) :
                    pTrees[t].name = name /\ pTrees[t].group = nodeGroups[g].name),
         "nodes").v
InsideUntranslated ==
  \A g \in NewGroups : \A j \in 1..Len(nodeGroups[g].tree.nodes) :
     LocationOf(nodeGroups[g].tree.nodes[j]) = Untranslated(GroupRecords(g)[j])

\* C13: given a target position, every node created at top level, whether or
\* not its record carries a recorded absolute position, is translated by target
\* position minus the center of the bounding box of the recorded positions, and
\* no node created inside a sub-graph is translated.
C13_TopLevelTranslated ==
  PasteDone => /\ \A j \in 1..Len(TopRecords) : TopTranslated(j)
               /\ InsideUntranslated

\* The same for the top-level nodes whose record carries a position
C13_RecordedTranslated ==
  PasteDone => /\ \A j \in 1..Len(TopRecords) :
                    RecordedLocation(TopRecords[j]) # JNull => TopTranslated(j)
               /\ InsideUntranslated
\* a paste that made a group with a node away from the default position
MovedInsideSeen ==
  /\ PasteDone
  /\ \E g \in NewGroups : \E j \in 1..Len(nodeGroups[g].tree.nodes) :
       LocationOf(nodeGroups[g].tree.nodes[j]) # <<0, 0>>
\* a paste of two nodes of which one has no recorded position
UnrecordedSeen ==
  /\ PasteDone /\ Len(TopRecords) = 2
  /\ \E j \in 1..2 : RecordedLocation(TopRecords[j]) = JNull

\* ---- claims about socket indices ----

\* the sockets a node made from the record nd has
SocketCount(nd, dir) ==
  Len(IF dir = "inputs" THEN TypeInputs(Lookup(nd, "bl_idname").v)
      ELSE TypeOutputs(Lookup(nd, "bl_idname").v))
Existing(i, count) == 0 <= i /\ i < count
RecordNamed(name) ==
  Batch[CHOOSE i \in 1..Len(Batch) : Lookup(Lookup(Batch[i], "props"), "name").v = name]
\* a recorded link whose source is in the batch and has no output of that index
LinkOutOfRange(l) ==
  /\ l.v[1].v \in BatchNames
  /\ ~Existing(l.v[2].v, SocketCount(RecordNamed(l.v[1].v), "outputs"))
LinkInRange(l) == ~LinkOutOfRange(l)
\* the record without the SocketRecords and links whose index denotes no socket
WithoutOutOfRange(nd) ==
  LET Kept(dir) ==
        LET InRange(p) == Existing(ParseInt(p[1]), SocketCount(nd, dir))
            Links(p) == IF HasKey(p[2], "links")
                        THEN Pair(p[1], SetIn(p[2], "links",
                                   JList(SelectSeq(Lookup(p[2], "links").v, LinkInRange))))
                        ELSE p
            kept == SelectSeq(Lookup(nd, dir).v, InRange)
        IN JDict([i \in 1..Len(kept) |-> Links(kept[i])])
      Ins(d) == IF HasKey(d, "inputs") THEN SetIn(d, "inputs", Kept("inputs")) ELSE d
      Outs(d) == IF HasKey(d, "outputs") THEN SetIn(d, "outputs", Kept("outputs")) ELSE d
  IN Outs(Ins(nd))
InRangeBatch == [i \in 1..Len(Batch) |-> WithoutOutOfRange(Batch[i])]
SocketKeys == UNION {UNION {Keys(Lookup(Batch[i], dir)) :
                              dir \in {d \in {"inputs", "outputs"} : HasKey(Batch[i], d)}} :
                       i \in 1..Len(Batch)}
LinkIndices == UNION {{l[3] : l \in RecordedLinks(Batch[i])} : i \in 1..Len(Batch)}
NoNegativeIndex ==
  /\ \A key \in SocketKeys : ParseInt(key) >= 0
  /\ \A index \in LinkIndices : index >= 0
SkippedOutOfRange ==
  /\ npc # "raised"
  /\ npc = "done" =>
       dstTree = create_nodes(EmptyTree, <<0, 0>>, InRangeBatch, <<>>, {}, {}).tree

\* C14: a SocketRecord whose key, or a link whose source output index, denotes
\* no socket of the created node (too large or negative) is skipped: nothing
\* is raised and the nodes, values and links created are those of the batch
\* without these records and links.
C14_OutOfRangeSkipped == SkippedOutOfRange

\* The same for the batches without a negative index
C14_TooLargeSkipped == NoNegativeIndex => SkippedOutOfRange
\* a batch with an index that is too large, created
TooLargeSeen ==
  /\ npc = "done" /\ NoNegativeIndex /\ InRangeBatch # Batch /\ dstTree.links # {}
\* a negative index taken from the end of the sockets
NegativeFromEndSeen ==
  /\ npc = "done" /\ ~NoNegativeIndex
  /\ dstTree # create_nodes(EmptyTree, <<0, 0>>, InRangeBatch, <<>>, {}, {}).tree
\* a negative index before the first socket
NegativeRaisedSeen == npc = "raised" /\ ~NoNegativeIndex

\* ---- claims about _collect_trees ----

\* the node groups reachable from the selected nodes, directly or through the
\* nodes of reachable groups
RECURSIVE ReachableFrom(_, _)
ReachableFrom(found, n) ==
  IF n = 0 THEN found
  ELSE ReachableFrom(found \cup UNION {Referenced(t) : t \in found}, n - 1)
Reachable == ReachableFrom(Range(selNodes) \ {None}, NTrees)
ExactlyOnce(s, S) == Range(s) = S /\ Len(s) = Cardinality(S)
Collected == include_groups /\ cpc \in {"sort", "create", "raised", "done"}
Sorted == include_groups /\ cpc \in {"create", "raised", "done"}

\* The turns of the while loop of _collect_trees are the nodes it put in
\* all_nodes, one a turn.  With the selected nodes at depth 1, the nodes of
\* their groups at depth 2 and so on, the nodes down to depth d are at most
\* MaxNodes + MaxNodes^2 + ... + MaxNodes^d.
RECURSIVE MostTurns(_)
MostTurns(d) == IF d = 0 THEN 0 ELSE MaxNodes * (1 + MostTurns(d - 1))

\* C15: _collect_trees terminates for every acyclic nesting of node groups (its
\* loop ends within the turns that the nesting's depth and width allow); the
\* trees it collects, and the list it returns, hold every node group reachable
\* from the selected nodes exactly once, and the dependency set of each tree is
\* the set of the groups its nodes reference.
C15_CollectsReachableOnce ==
  /\ Collected => /\ Len(all_nodes) <= MostTurns(NTrees + 1)
                  /\ ExactlyOnce(graph.keys, Reachable)
                  /\ \A t \in Reachable : graph.deps[t] = Referenced(t)
  /\ Sorted => ExactlyOnce(docTrees, Reachable)

\* a group referenced by two nodes of one tree and by a node of another tree,
\* itself referencing a group
C15_Witness ==
  /\ Sorted
  /\ \E t \in Reachable :
       /\ Referenced(t) # {}
       /\ \E a \in Reachable : Cardinality({i \in 1..Len(groupNodes[a]) : groupNodes[a][i] = t}) = 2
       /\ t \in Range(selNodes)

\* ---- claims about the passes of _create_nodes ----

\* the node types whose bl_idname contains 'Output'
OutputTypes == {"GeometryNodeRepeatOutput"}
HasOutputName(e) == dstTree.nodes[e.node].bl_idname \in OutputTypes
RecordIndex(e) == CHOOSE i \in 1..Len(Batch) : Batch[i] = e.nd
\* the order in which the second and the fourth pass take the created nodes
PassOrder == OutputFirst(created)
\* every node of the batch exists and bears its name, and nothing else of its
\* record is applied
OnlyMadeAndNamed ==
  /\ Len(dstTree.nodes) = Len(Batch)
  /\ Len(created) = Len(Batch)
  /\ dstTree.links = {}
  /\ \A j \in 1..Len(created) :
       dstTree.nodes[created[j].node] =
         NewNode(Lookup(Batch[j], "bl_idname").v, Lookup(Lookup(Batch[j], "props"), "name").v)

\* C16: all nodes of the batch are instantiated and named before any parent,
\* pairing or property is applied; the parent/pairing/property pass and the
\* socket-value pass take every node whose bl_idname contains 'Output' before
\* every other node, in the order of the NodeRecords within each of the two.
C16_OutputNodesFirst ==
  /\ npc = "parents" => OnlyMadeAndNamed
  /\ npc \in {"parents", "links", "values", "done"} =>
       /\ Len(PassOrder) = Len(created) /\ Range(PassOrder) = Range(created)
       /\ \A a, b \in 1..Len(PassOrder) :
            a < b => /\ HasOutputName(PassOrder[b]) => HasOutputName(PassOrder[a])
                     /\ HasOutputName(PassOrder[a]) = HasOutputName(PassOrder[b])
                          => RecordIndex(PassOrder[a]) < RecordIndex(PassOrder[b])

\* a batch of three in which an Output node is recorded after another node
C16_Witness ==
  /\ npc = "done" /\ Len(Batch) = 3
  /\ \E i, j \in 1..3 : /\ i < j
                        /\ Lookup(Batch[i], "bl_idname").v \notin OutputTypes
                        /\ Lookup(Batch[j], "bl_idname").v \in OutputTypes
  /\ \E i \in 1..3 : HasKey(Batch[i], "paired_output")

\* ---- claims about properties the host does not have ----

IsKnown(p) == p[1] # UnknownKey
\* the record without the unknown key in its props and in its SocketRecords
WithoutUnknown(nd) ==
  LET Sockets(d, dir) ==
        IF HasKey(d, dir)
        THEN SetIn(d, dir, JDict([i \in 1..Len(Lookup(d, dir).v) |->
               Pair(Lookup(d, dir).v[i][1],
                    JDict(SelectSeq(Lookup(d, dir).v[i][2].v, IsKnown)))]))
        ELSE d
      Props(d) == SetIn(d, "props", JDict(SelectSeq(Lookup(d, "props").v, IsKnown)))
  IN Sockets(Sockets(Props(nd), "inputs"), "outputs")
KnownBatch == [i \in 1..Len(Batch) |-> WithoutUnknown(Batch[i])]
UnknownInProps == \E i \in 1..Len(Batch) : HasKey(Lookup(Batch[i], "props"), UnknownKey)
UnknownIgnored ==
  /\ npc # "raised"
  /\ npc = "done" =>
       dstTree = create_nodes(EmptyTree, <<0, 0>>, KnownBatch, <<>>, {}, {}).tree

\* C17: a key of a NodeRecord's props or of a SocketRecord that names no
\* property of the created node or socket is skipped: _create_nodes raises
\* nothing and applies every other recorded property, link and value.
C17_UnknownPropsIgnored == UnknownIgnored

\* The same for the batches with no unknown key in a NodeRecord's props
C17_UnknownSocketPropsIgnored == ~UnknownInProps => UnknownIgnored
\* a SocketRecord with the unknown key, its other values set
UnknownSocketPropSeen ==
  /\ npc = "done" /\ KnownBatch # Batch /\ dstTree.links # {}
\* a NodeRecord with the unknown key in props
UnknownPropRaisedSeen == npc = "raised" /\ UnknownInProps

\* ---- claims about the copy operator's text ----

SomeSelected == SelectedNodes(kTree) # <<>>
TextAccepted == kpc # "cancelled"

\* C18: the clipboard text of the copy operator, for every selection of the
\* edited tree's nodes and the empty one too, is read by the paste operator
\* as JSON that passes validate_schema against SCHEMA.
C18_CopiedTextAccepted == TextAccepted

\* The same for the selections of one node or more, the document read being
\* the one nodes_to_dict returned
C18_SelectionAccepted ==
  SomeSelected => /\ TextAccepted
                  /\ kpc = "done" => kDoc = nodes_to_dict(kTree, SelectedNodes(kTree))
\* a selection copied on several lines and accepted
SelectionAcceptedSeen ==
  /\ kpc = "done" /\ Len(SelectedNodes(kTree)) = 2 /\ kWidth = NarrowInline
  /\ Len(splitlines(kClipboard)) > 3
\* the empty selection's text refused
EmptySelectionRefusedSeen ==
  /\ kpc = "cancelled" /\ ~SomeSelected /\ kDoc = JDict(<<>>) /\ kResult # Passed

\* ---- claims about the position computation ----

SomeRecorded == \E i \in 1..Len(TopRecords) : Truthy(RecordedLocation(TopRecords[i]))
Offset == Delta(RecordedAt(TopRecords), cursor_location)
LocateRaises == ppc = "locate" /\ ppc' = "raised"

\* C19: with a target position, dict_to_nodes computes location_offset
\* without raising for every document that passed validate_schema, also when
\* no top-level NodeRecord carries a position and when 'nodes' is empty.
C19_PositionComputed == [][~LocateRaises]_vars

\* The same for the documents in which a top-level NodeRecord carries a
\* position
C19_RecordedPositionComputed ==
  [][(ppc = "locate" /\ SomeRecorded) => (ppc' = "create" /\ pOffset' = Offset)]_vars
\* the offset computed from a recorded position
OffsetComputedSeen == ppc = "create" /\ SomeRecorded /\ pOffset = Offset /\ pOffset # <<0, 0>>
\* raised on a document of one node at the default position, and on one of no node
DefaultPositionRaisedSeen ==
  ppc = "raised" /\ Len(TopRecords) = 1 /\ ~SomeRecorded /\ ~HasKey(nodes_dict, "node_trees")
EmptyNodesRaisedSeen == ppc = "raised" /\ TopRecords = <<>>

====
